---- MODULE Spec2Model ----
\* Promise sealing / challenge binding / signed-artifact verification of
\* Pinkypromise: server/routes.ts, server/webauthn-promise.ts, server/crypto.ts.
\*
\* Strings are sequences of character codes (ASCII).  A JavaScript value that
\* travels through JSON is a record [t, s, h]:
\*   t = "str"   a plain string with characters s
\*   t = "hash"  the string base64url(SHA-256(JSON text h)); SHA-256 is taken
\*               collision free, so the string is determined by h and differs
\*               from every plain string of the model
\*   t = "null" / "undef" / "num"   the corresponding JavaScript values
EXTENDS Integers, Sequences, FiniteSets, TLC

VARIABLES
    promises,      \* db.promise: the rows in creation order
    certificates,  \* db.promiseCertificate
    credentials,   \* db.credential
    challenges,    \* the in-memory challenge map of routes.ts
    file,          \* the promise file a holder keeps (NoFile: none yet)
    built,         \* that file as the sign route returned it
    edits,         \* how many times the holder changed the file since
    result,        \* the answer to the last verification of file
    seal,          \* a sealing round trip of crypto.ts on its own
    cert,          \* a certificate of crypto.ts on its own
    snap,          \* two promise snapshots and their signing challenges
    inflight,      \* authenticate/verify requests between two awaits
    responses,     \* what each authenticate/verify request was answered
    issued,        \* how many authentication challenges were generated
    shares,        \* db.promiseShare
    reply          \* the answer to the last validate request

\* the variables of the functions exercised on their own
authVars == <<inflight, responses, issued>>
validateVars == <<shares, reply>>
fileVars == <<file, built, edits, result>>
benchVars == <<cert, snap, authVars, validateVars>>

vars == <<promises, certificates, credentials, challenges, file, built, edits,
          result, seal, benchVars>>

----------------------------------------------------------------------------
\* Bounds

MaxPromises == 1
MaxEdits == 1
MaxLen == 2
MaxRequests == 2
MaxIssued == 3

----------------------------------------------------------------------------
\* JavaScript values

S(str) == [t |-> "str", s |-> str, h |-> <<>>]
Null == [t |-> "null", s |-> <<>>, h |-> <<>>]
Undef == [t |-> "undef", s |-> <<>>, h |-> <<>>]
Num(str) == [t |-> "num", s |-> str, h |-> <<>>]
Sha256B64Url(json) == [t |-> "hash", s |-> <<>>, h |-> json]

IsString(v) == v.t \in {"str", "hash"}
Truthy(v) == (v.t \in {"hash", "num"}) \/ (v.t = "str" /\ v.s # <<>>)

\* String.prototype.includes on character sequences
Includes(hay, needle) ==
    \E i \in 0..(Len(hay) - Len(needle)) : SubSeq(hay, i + 1, i + Len(needle)) = needle

----------------------------------------------------------------------------
\* Configuration and the small input universe

Users == {"u1", "u2"}
UserIdStr(u) == IF u = "u1" THEN <<117, 49>> ELSE <<117, 50>>
UserName(u) == IF u = "u1" THEN <<97, 108>> ELSE <<98, 111>>

\* RP_ID = "localhost", ORIGIN = "http://localhost:2000"
RP_ID == <<108, 111, 99, 97, 108, 104, 111, 115, 116>>
ORIGIN == <<104, 116, 116, 112, 58, 47, 47>> \o RP_ID \o <<58, 50, 48, 48, 48>>
\* process.env.REPLIT_DOMAINS || 'localhost' with the variable unset
EnvRpId == RP_ID
\* a foreign site: "https://evil.io" and its host name
EvilHost == <<101, 118, 105, 108, 46, 105, 111>>
EvilOrigin == <<104, 116, 116, 112, 115, 58, 47, 47>> \o EvilHost

WebAuthnGet == <<119, 101, 98, 97, 117, 116, 104, 110, 46, 103, 101, 116>>
WebAuthnCreate == <<119, 101, 98, 97, 117, 116, 104, 110, 46, 99, 114, 101, 97, 116, 101>>

PromiseIdStr(n) == <<112, 48 + n>>
Titles == {<<84>>}
Contents == {<<70, 114, 105>>, <<77, 111, 110>>}
\* delivery dates as ISO strings
IsoDates == {<<50, 48, 50, 53, 45, 48, 49>>, <<50, 48, 50, 53, 45, 48, 51>>}
CreatedAtIso == <<50, 48, 50, 52>>

\* authenticator key pairs, one per user, and an unrelated one
KeyOf(u) == IF u = "u1" THEN "k1" ELSE "k2"
Keys == {"k1", "k2", "kx"}
CredIdOf(u) == IF u = "u1" THEN <<99, 49>> ELSE <<99, 50>>

----------------------------------------------------------------------------
\* Byte and text encodings used by crypto.ts

\* sum and concatenation of the elements of a sequence, by halves
RECURSIVE SumSeq(_)
SumSeq(q) ==
    IF q = <<>> THEN 0
    ELSE IF Len(q) = 1 THEN q[1]
    ELSE SumSeq(SubSeq(q, 1, Len(q) \div 2))
         + SumSeq(SubSeq(q, (Len(q) \div 2) + 1, Len(q)))

RECURSIVE Flatten(_)
Flatten(qq) ==
    IF qq = <<>> THEN <<>>
    ELSE IF Len(qq) = 1 THEN qq[1]
    ELSE Flatten(SubSeq(qq, 1, Len(qq) \div 2))
         \o Flatten(SubSeq(qq, (Len(qq) \div 2) + 1, Len(qq)))

\* the least element of a non-empty set of numbers
Least(set) == CHOOSE x \in set : \A y \in set : x <= y

\* lower-case hexadecimal digits "0123456789abcdef"
HexDigit(n) == IF n < 10 THEN 48 + n ELSE 87 + n
HexValue(c) ==
    IF c \in 48..57 THEN c - 48
    ELSE IF c \in 97..102 THEN c - 87
    ELSE IF c \in 65..70 THEN c - 55
    ELSE -1

\* Buffer.toString('hex')
ToHex(bytes) ==
    [i \in 1..(2 * Len(bytes)) |->
        IF i % 2 = 1 THEN HexDigit(bytes[(i + 1) \div 2] \div 16)
        ELSE HexDigit(bytes[i \div 2] % 16)] \o <<>>

\* Buffer.from(text, 'hex'): decoding stops at the first pair that is not
\* two hexadecimal digits
HexPrefixPairs(text) ==
    LET bad == {n \in 1..(Len(text) \div 2) :
                   HexValue(text[2 * n - 1]) < 0 \/ HexValue(text[2 * n]) < 0}
    IN  IF bad = {} THEN Len(text) \div 2 ELSE Least(bad) - 1
FromHex(text) ==
    [i \in 1..HexPrefixPairs(text) |->
        16 * HexValue(text[2 * i - 1]) + HexValue(text[2 * i])] \o <<>>

\* Buffer.from(str, 'utf8') for code points below 0x800
Utf8Char(c) == IF c < 128 THEN <<c>> ELSE <<192 + (c \div 64), 128 + (c % 64)>>
Utf8Encode(str) ==
    IF \A i \in 1..Len(str) : str[i] < 128 THEN str
    ELSE Flatten([i \in 1..Len(str) |-> Utf8Char(str[i])] \o <<>>)

\* Buffer.toString('utf8'): an invalid sequence decodes to U+FFFD
ReplacementChar == 65533
\* byte i starts a two-byte character
Utf8Lead(bytes, i) ==
    /\ bytes[i] \in 194..223 /\ i < Len(bytes) /\ bytes[i + 1] \in 128..191
Utf8Decode(bytes) ==
    IF \A i \in 1..Len(bytes) : bytes[i] < 128 THEN bytes
    ELSE Flatten([i \in 1..Len(bytes) |->
        IF bytes[i] < 128 THEN <<bytes[i]>>
        ELSE IF Utf8Lead(bytes, i)
             THEN <<(bytes[i] - 192) * 64 + (bytes[i + 1] - 128)>>
        \* the second byte of a character started before it
        ELSE IF i > 1 /\ Utf8Lead(bytes, i - 1) THEN <<>>
        ELSE <<ReplacementChar>>] \o <<>>)

\* the base64 alphabet A-Z a-z 0-9 + /
B64Char(v) ==
    IF v < 26 THEN 65 + v
    ELSE IF v < 52 THEN 71 + v
    ELSE IF v < 62 THEN v - 4
    ELSE IF v = 62 THEN 43 ELSE 47
B64Value(c) ==
    IF c \in 65..90 THEN c - 65
    ELSE IF c \in 97..122 THEN c - 71
    ELSE IF c \in 48..57 THEN c + 4
    ELSE IF c = 43 \/ c = 45 THEN 62
    ELSE IF c = 47 \/ c = 95 THEN 63
    ELSE -1

ByteAt(bytes, i) == IF i <= Len(bytes) THEN bytes[i] ELSE 0

\* Buffer.toString('base64'), padded with '='
ToBase64(bytes) ==
    [i \in 1..(4 * ((Len(bytes) + 2) \div 3)) |->
        LET g == (i - 1) \div 4
            b1 == ByteAt(bytes, 3 * g + 1)
            b2 == ByteAt(bytes, 3 * g + 2)
            b3 == ByteAt(bytes, 3 * g + 3)
            k == (i - 1) % 4
        IN  IF k = 0 THEN B64Char(b1 \div 4)
            ELSE IF k = 1 THEN B64Char((b1 % 4) * 16 + (b2 \div 16))
            ELSE IF k = 2
                 THEN IF 3 * g + 2 > Len(bytes) THEN 61
                      ELSE B64Char((b2 % 16) * 4 + (b3 \div 64))
                 ELSE IF 3 * g + 3 > Len(bytes) THEN 61
                      ELSE B64Char(b3 % 64)] \o <<>>

\* Buffer.from(text, 'base64'): characters outside the alphabet are skipped,
\* decoding stops at the first '='
B64Sextets(text) ==
    LET pads == {i \in 1..Len(text) : text[i] = 61}
        end == IF pads = {} THEN Len(text) ELSE Least(pads) - 1
    IN  IF \A i \in 1..end : B64Value(text[i]) >= 0
        THEN [i \in 1..end |-> B64Value(text[i])] \o <<>>
        ELSE Flatten([i \in 1..end |->
                 IF B64Value(text[i]) < 0 THEN <<>> ELSE <<B64Value(text[i])>>] \o <<>>)
FromBase64(text) ==
    LET sx == B64Sextets(text)
        n == (Len(sx) * 6) \div 8
    IN  [i \in 1..n |->
            LET g == (i - 1) \div 3
                k == (i - 1) % 3
            IN  IF k = 0 THEN sx[4 * g + 1] * 4 + (sx[4 * g + 2] \div 16)
                ELSE IF k = 1
                     THEN (sx[4 * g + 2] % 16) * 16 + (sx[4 * g + 3] \div 4)
                     ELSE (sx[4 * g + 3] % 4) * 64 + sx[4 * g + 4]] \o <<>>

----------------------------------------------------------------------------
\* JSON text.  A parsed value is a record [k, s, n, m]: k = "str" with
\* characters s, k = "num" with value n, k = "obj" with members m (a sequence
\* of <<key, value>>), k = "null", "bool" (n = 1 for true) or "undef".

TEXT_null == <<110, 117, 108, 108>>
TEXT_true == <<116, 114, 117, 101>>
TEXT_false == <<102, 97, 108, 115, 101>>

JStr(str) == [k |-> "str", s |-> str, n |-> 0, m |-> <<>>]
JNum(num) == [k |-> "num", s |-> <<>>, n |-> num, m |-> <<>>]
JObj(members) == [k |-> "obj", s |-> <<>>, n |-> 0, m |-> members]
JNull == [k |-> "null", s |-> <<>>, n |-> 0, m |-> <<>>]
JBool(b) == [k |-> "bool", s |-> <<>>, n |-> IF b THEN 1 ELSE 0, m |-> <<>>]
JUndef == [k |-> "undef", s |-> <<>>, n |-> 0, m |-> <<>>]

\* JSON.stringify of one character of a string
JsonEscapeChar(c) ==
    IF c = 34 THEN <<92, 34>>
    ELSE IF c = 92 THEN <<92, 92>>
    ELSE IF c = 8 THEN <<92, 98>>
    ELSE IF c = 9 THEN <<92, 116>>
    ELSE IF c = 10 THEN <<92, 110>>
    ELSE IF c = 12 THEN <<92, 102>>
    ELSE IF c = 13 THEN <<92, 114>>
    ELSE IF c < 32 THEN <<92, 117, 48, 48, HexDigit(c \div 16), HexDigit(c % 16)>>
    \* a surrogate without its pair is written as an escape
    ELSE IF c \in 55296..57343
         THEN <<92, 117, HexDigit(c \div 4096), HexDigit((c \div 256) % 16),
                HexDigit((c \div 16) % 16), HexDigit(c % 16)>>
    ELSE <<c>>

\* the string in quotes, each character as JsonEscapeChar writes it
JsonString(str) ==
    IF \A i \in 1..Len(str) : str[i] >= 32 /\ str[i] < 55296 /\ str[i] # 34 /\ str[i] # 92
    THEN <<34>> \o str \o <<34>>
    ELSE <<34>> \o Flatten([i \in 1..Len(str) |-> JsonEscapeChar(str[i])] \o <<>>) \o <<34>>

RECURSIVE JsonDigits(_)
JsonDigits(num) ==
    IF num < 10 THEN <<48 + num>> ELSE JsonDigits(num \div 10) \o <<48 + (num % 10)>>

RECURSIVE JsonStringify(_)
RECURSIVE JsonMembers(_, _)
JsonMembers(members, first) ==
    IF members = <<>> THEN <<>>
    ELSE IF Head(members)[2].k = "undef" THEN JsonMembers(Tail(members), first)
    ELSE (IF first THEN <<>> ELSE <<44>>)
         \o JsonString(Head(members)[1]) \o <<58>> \o JsonStringify(Head(members)[2])
         \o JsonMembers(Tail(members), FALSE)
JsonStringify(v) ==
    IF v.k = "str" THEN JsonString(v.s)
    ELSE IF v.k = "num" THEN JsonDigits(v.n)
    ELSE IF v.k = "bool" THEN (IF v.n = 1 THEN TEXT_true ELSE TEXT_false)
    ELSE IF v.k = "obj" THEN <<123>> \o JsonMembers(v.m, TRUE) \o <<125>>
    ELSE TEXT_null

ParseFail == [ok |-> FALSE, v |-> JUndef, next |-> 0]
ParseOk(v, next) == [ok |-> TRUE, v |-> v, next |-> next]

UnescapeChar(c) ==
    IF c = 34 \/ c = 92 \/ c = 47 THEN c
    ELSE IF c = 98 THEN 8
    ELSE IF c = 102 THEN 12
    ELSE IF c = 110 THEN 10
    ELSE IF c = 114 THEN 13
    ELSE IF c = 116 THEN 9
    ELSE -1

\* the characters of a string literal from position i, after the opening quote
\* the first quote, backslash or control character at or after position i
NextSpecial(text, i) ==
    LET special == {j \in i..Len(text) : text[j] = 34 \/ text[j] = 92 \/ text[j] < 32}
    IN  IF special = {} THEN Len(text) + 1 ELSE Least(special)

RECURSIVE ParseStringBody(_, _, _)
ParseStringBody(text, i, acc) ==
    IF i > Len(text) THEN ParseFail
    ELSE IF text[i] = 34 THEN ParseOk(JStr(acc), i + 1)
    ELSE IF text[i] < 32 THEN ParseFail
    ELSE IF text[i] # 92
         THEN ParseStringBody(text, NextSpecial(text, i),
                              acc \o SubSeq(text, i, NextSpecial(text, i) - 1))
    ELSE IF i + 1 > Len(text) THEN ParseFail
    ELSE IF text[i + 1] = 117
         THEN IF /\ i + 5 <= Len(text)
                 /\ \A j \in 2..5 : HexValue(text[i + j]) >= 0
              THEN ParseStringBody(text, i + 6,
                       acc \o <<4096 * HexValue(text[i + 2]) + 256 * HexValue(text[i + 3])
                                + 16 * HexValue(text[i + 4]) + HexValue(text[i + 5])>>)
              ELSE ParseFail
    ELSE IF UnescapeChar(text[i + 1]) < 0 THEN ParseFail
    ELSE ParseStringBody(text, i + 2, acc \o <<UnescapeChar(text[i + 1])>>)

RECURSIVE DigitRun(_, _)
DigitRun(text, i) ==
    IF i <= Len(text) /\ text[i] \in 48..57 THEN DigitRun(text, i + 1) ELSE i

RECURSIVE DigitsValue(_)
DigitsValue(ds) ==
    IF ds = <<>> THEN 0
    ELSE 10 * DigitsValue(SubSeq(ds, 1, Len(ds) - 1)) + (ds[Len(ds)] - 48)

ParseNumber(text, i) ==
    LET e == DigitRun(text, i) IN
    IF e = i \/ (e > i + 1 /\ text[i] = 48) THEN ParseFail
    ELSE ParseOk(JNum(DigitsValue(SubSeq(text, i, e - 1))), e)

ParseLiteral(text, i, lit, v) ==
    IF i + Len(lit) - 1 <= Len(text) /\ SubSeq(text, i, i + Len(lit) - 1) = lit
    THEN ParseOk(v, i + Len(lit)) ELSE ParseFail

\* objects, strings, non-negative integers, true, false and null, without
\* white space (JSON.stringify writes none); arrays are not written by the
\* program and are rejected
RECURSIVE ParseValue(_, _)
RECURSIVE ParseMembers(_, _, _)
ParseMembers(text, i, acc) ==
    IF i > Len(text) \/ text[i] # 34 THEN ParseFail
    ELSE LET key == ParseStringBody(text, i + 1, <<>>) IN
         IF ~key.ok \/ key.next > Len(text) \/ text[key.next] # 58 THEN ParseFail
         ELSE LET val == ParseValue(text, key.next + 1) IN
              IF ~val.ok \/ val.next > Len(text) THEN ParseFail
              ELSE IF text[val.next] = 125
                   THEN ParseOk(JObj(acc \o << <<key.v.s, val.v>> >>), val.next + 1)
              ELSE IF text[val.next] = 44
                   THEN ParseMembers(text, val.next + 1,
                                     acc \o << <<key.v.s, val.v>> >>)
              ELSE ParseFail
ParseValue(text, i) ==
    IF i > Len(text) THEN ParseFail
    ELSE IF text[i] = 34 THEN ParseStringBody(text, i + 1, <<>>)
    ELSE IF text[i] \in 48..57 THEN ParseNumber(text, i)
    ELSE IF text[i] = 110 THEN ParseLiteral(text, i, TEXT_null, JNull)
    ELSE IF text[i] = 116 THEN ParseLiteral(text, i, TEXT_true, JBool(TRUE))
    ELSE IF text[i] = 102 THEN ParseLiteral(text, i, TEXT_false, JBool(FALSE))
    ELSE IF text[i] = 123
         THEN IF i + 1 <= Len(text) /\ text[i + 1] = 125
              THEN ParseOk(JObj(<<>>), i + 2)
              ELSE ParseMembers(text, i + 1, <<>>)
    ELSE ParseFail

\* JSON.parse: ok = FALSE is a SyntaxError
JsonParse(text) ==
    LET r == ParseValue(text, 1) IN
    IF r.ok /\ r.next = Len(text) + 1 THEN r ELSE ParseFail

\* obj.key of a parsed value: the last member of that name, undefined when
\* there is none or the value is not an object
RECURSIVE GetMember(_, _)
GetMember(members, key) ==
    IF members = <<>> THEN JUndef
    ELSE IF members[Len(members)][1] = key THEN members[Len(members)][2]
    ELSE GetMember(SubSeq(members, 1, Len(members) - 1), key)
Get(v, key) == IF v.k = "obj" THEN GetMember(v.m, key) ELSE JUndef

----------------------------------------------------------------------------
\* webauthn-promise.ts

KEY_id == <<105, 100>>
KEY_title == <<116, 105, 116, 108, 101>>
KEY_content == <<99, 111, 110, 116, 101, 110, 116>>
KEY_deliveryDate == <<100, 101, 108, 105, 118, 101, 114, 121, 68, 97, 116, 101>>
KEY_creatorId == <<99, 114, 101, 97, 116, 111, 114, 73, 100>>

\* the value JSON.stringify sees: a string, null, or undefined (the member is
\* left out); a digest, and the digits of a number, are written as strings
\* that no plain string of the model equals
JsonOf(v) ==
    IF v.t = "str" THEN JStr(v.s)
    ELSE IF v.t = "hash" THEN JStr(<<0>> \o v.h)
    ELSE IF v.t = "undef" THEN JUndef
    ELSE IF v.t = "num" THEN JStr(<<1>> \o v.s)
    ELSE JNull

\* variant: the field values joined one after the other
generateSigningChallenge_Joined(id, title, content, deliveryDate, creatorId) ==
    Sha256B64Url(JsonOf(id).s \o JsonOf(title).s \o JsonOf(content).s
                 \o JsonOf(deliveryDate).s \o JsonOf(creatorId).s)

\* generateSigningChallenge: base64url of the SHA-256 of JSON.stringify of
\* the five fields in this order
generateSigningChallenge(id, title, content, deliveryDate, creatorId) ==
    Sha256B64Url(JsonStringify(JObj(<< <<KEY_id, JsonOf(id)>>,
                                       <<KEY_title, JsonOf(title)>>,
                                       <<KEY_content, JsonOf(content)>>,
                                       <<KEY_deliveryDate, JsonOf(deliveryDate)>>,
                                       <<KEY_creatorId, JsonOf(creatorId)>> >>)))

\* Date.prototype.toJSON / res.json of a stored column: a Date becomes its ISO
\* string, null stays null
ToJson(v) == IF v.t = "date" THEN [t |-> "str", s |-> v.s, h |-> <<>>] ELSE v

\* encryptPromiseContent: an opaque JSON text {encrypted, iv, authTag}; nothing
\* reads it back
encryptPromiseContent(content, key) == [t |-> "str", s |-> <<123, 125>>, h |-> <<>>]

createSignedPromiseFile(promiseData, signatureData, publicKey, challenge) ==
    [shape |-> "object",
     id |-> promiseData.id,
     title |-> promiseData.title,
     content |-> promiseData.content,
     deliveryDate |-> promiseData.deliveryDate,
     createdAt |-> promiseData.createdAt,
     creator |-> promiseData.creator,
     encryptedContent |-> encryptPromiseContent(promiseData.content, promiseData.id),
     signature |-> signatureData,
     publicKey |-> publicKey,
     challenge |-> challenge,
     rpId |-> S(EnvRpId),
     verification |-> Undef]

\* crypto.createPublicKey({key, format: 'pem'}) throws unless key is PEM text
CreatePublicKeyThrows(publicKeyPem) ==
    ~(publicKeyPem.t = "str" /\ publicKeyPem.fmt = "pem")

\* crypto.verify('sha256', authenticatorData || SHA-256(clientDataJSON), key, sig)
CryptoVerify(sig, publicKeyPem) ==
    /\ sig.signature.by = publicKeyPem.key
    /\ sig.signature.ad = sig.authenticatorData
    /\ sig.signature.cdj = sig.clientDataJSON

\* variant: a key that fails to parse is let through to the comparison
verifyWebAuthnSignature_NoCatch(signature, publicKeyPem, expectedChallenge) ==
    CryptoVerify(signature, publicKeyPem)

\* variant: the signature check also compares the signed challenge
verifyWebAuthnSignature_Bound(signature, publicKeyPem, expectedChallenge) ==
    IF CreatePublicKeyThrows(publicKeyPem) THEN FALSE
    ELSE /\ CryptoVerify(signature, publicKeyPem)
         /\ signature.clientDataJSON.challenge = expectedChallenge

verifyWebAuthnSignature(signature, publicKeyPem, expectedChallenge) ==
    IF CreatePublicKeyThrows(publicKeyPem) THEN FALSE
    ELSE CryptoVerify(signature, publicKeyPem)

\* JSON.parse(Buffer.from(clientDataJSON, 'base64url').toString('utf8'))
ClientDataParseThrows(sp) ==
    \/ sp.signature.clientDataJSON.t # "str"
    \/ sp.signature.clientDataJSON.json = "bad"

isChallengeValidOf(sp) ==
    sp.challenge = generateSigningChallenge(sp.id, sp.title, sp.content,
                                            sp.deliveryDate, sp.creator.id)

\* the && chain of lines 141-144; reading .type of null and calling
\* .includes on a missing origin raise TypeError
ClientDataChainThrows(sp) ==
    LET cd == sp.signature.clientDataJSON IN
    \/ cd.json = "null"
    \/ /\ cd.type = S(WebAuthnGet)
       /\ cd.challenge = sp.challenge
       /\ ~IsString(cd.origin)

\* variant: the client data's challenge is not compared with the file's
isClientDataValidOf_AnyChallenge(sp) ==
    LET cd == sp.signature.clientDataJSON IN
    /\ cd.type = S(WebAuthnGet)
    /\ sp.rpId.t = "str"
    /\ Includes(cd.origin.s, sp.rpId.s)

isClientDataValidOf(sp) ==
    LET cd == sp.signature.clientDataJSON IN
    /\ cd.type = S(WebAuthnGet)
    /\ cd.challenge = sp.challenge
    /\ sp.rpId.t = "str"
    /\ Includes(cd.origin.s, sp.rpId.s)

\* the statements of the try block that raise
TryThrows(sp) ==
    \/ sp.shape # "object"
    \/ sp.creator.t # "obj"
    \/ sp.signature.t # "obj"
    \/ ClientDataParseThrows(sp)
    \/ ClientDataChainThrows(sp)

ErrDetails == S(<<67, 104, 97, 108, 108, 101, 110, 103, 101, 58>>)
ErrMessage == S(<<67, 97, 110, 110, 111, 116>>)
Unknown == S(<<85, 110, 107, 110, 111, 119, 110>>)

NoResult ==
    [path |-> "none", isValid |-> FALSE, isSignatureValid |-> FALSE,
     isChallengeValid |-> FALSE, isDataIntact |-> FALSE,
     isClientDataValid |-> FALSE, creator |-> Undef, errorDetails |-> Undef]

\* variant: the client-data check is left out of the conjunction
isValidOf_NoClientData(isChallengeValid, isClientDataValid, isSignatureValid, isDataIntact) ==
    isChallengeValid /\ isSignatureValid /\ isDataIntact

isValidOf(isChallengeValid, isClientDataValid, isSignatureValid, isDataIntact) ==
    isChallengeValid /\ isClientDataValid /\ isSignatureValid /\ isDataIntact

isDataIntactOf(sp) == TRUE

verifySignedPromise(sp) ==
    IF ~TryThrows(sp)
    THEN LET c == isChallengeValidOf(sp)
             d == isClientDataValidOf(sp)
             g == verifyWebAuthnSignature(sp.signature, sp.publicKey, sp.challenge)
             i == isDataIntactOf(sp)
             v == isValidOf(c, d, g, i)
         IN  [path |-> "try", isValid |-> v, isSignatureValid |-> g,
              isChallengeValid |-> c, isDataIntact |-> i,
              isClientDataValid |-> d, creator |-> sp.creator.username,
              errorDetails |-> IF v THEN Undef ELSE ErrDetails]
    ELSE IF sp.shape \in {"null", "undefined"}
    \* the catch block reads signedPromise.creator of null: the TypeError
    \* leaves the function
    THEN [NoResult EXCEPT !.path = "throw"]
    ELSE [path |-> "catch", isValid |-> FALSE, isSignatureValid |-> FALSE,
          isChallengeValid |-> FALSE, isDataIntact |-> FALSE,
          isClientDataValid |-> FALSE,
          creator |-> IF sp.creator.t = "obj" /\ Truthy(sp.creator.username)
                      THEN sp.creator.username ELSE Unknown,
          errorDetails |-> ErrMessage]

----------------------------------------------------------------------------
\* Values of the request bodies and of the file a holder keeps

NoClientData ==
    [t |-> "undef", json |-> "none", type |-> Undef, challenge |-> Undef,
     origin |-> Undef]
NoRawSig == [by |-> "none", ad |-> Undef, cdj |-> NoClientData]
NoSignature ==
    [t |-> "undef", credentialId |-> Undef, clientDataJSON |-> NoClientData,
     authenticatorData |-> Undef, signature |-> NoRawSig, userHandle |-> Undef]
NoCreator == [t |-> "undef", id |-> Undef, username |-> Undef]
NoKey == [t |-> "undef", fmt |-> "none", key |-> "none"]

\* a PEM public key and the base64 of the COSE key bytes of key pair k
Pem(k) == [t |-> "str", fmt |-> "pem", key |-> k]
CoseB64(k) == [t |-> "str", fmt |-> "cose", key |-> k]

BlankFile(shape) ==
    [shape |-> shape, id |-> Undef, title |-> Undef, content |-> Undef,
     deliveryDate |-> Undef, createdAt |-> Undef, creator |-> NoCreator,
     encryptedContent |-> Undef, signature |-> NoSignature,
     publicKey |-> NoKey, challenge |-> Undef, rpId |-> Undef,
     verification |-> Undef]
NoFile == BlankFile("none")

\* base64url client data {type, challenge, origin}; json = "bad" is text
\* that JSON.parse rejects, json = "null" the JSON text null
ClientData(type, challenge, origin) ==
    [t |-> "str", json |-> "obj", type |-> S(type), challenge |-> challenge,
     origin |-> origin]
BadClientData == [NoClientData EXCEPT !.t = "str", !.json = "bad"]
NullClientData == [NoClientData EXCEPT !.t = "str", !.json = "null"]

AuthData == S(<<65, 68>>)

\* the assertion an authenticator holding key pair k returns for client data cd
Assertion(k, credId, cd) ==
    [t |-> "obj", credentialId |-> S(credId), clientDataJSON |-> cd,
     authenticatorData |-> AuthData,
     signature |-> [by |-> k, ad |-> AuthData, cdj |-> cd],
     userHandle |-> Undef]

----------------------------------------------------------------------------
\* crypto.ts

\* AES-256-GCM, modelled as a stream cipher with a keyed tag over the
\* associated data and the ciphertext: decryption under the same key and IV
\* inverts encryption, and the tag depends on key, IV, associated data and
\* every ciphertext byte
AesKeyLen == 32
GcmTagLen == 16
PROMISE_AAD == <<112, 114, 111, 109, 105, 115, 101, 115, 104, 97, 114, 101, 45, 97, 117, 116, 104>>

GcmStream(key, iv, i) ==
    (key[((i - 1) % Len(key)) + 1] + iv[((i - 1) % Len(iv)) + 1] + 7 * i) % 256
GcmEncrypt(key, iv, plain) ==
    [i \in 1..Len(plain) |-> (plain[i] + GcmStream(key, iv, i)) % 256] \o <<>>
GcmDecrypt(key, iv, cipher) ==
    [i \in 1..Len(cipher) |-> (cipher[i] + 256 - GcmStream(key, iv, i)) % 256] \o <<>>
GcmTag(key, iv, aad, cipher) ==
    [j \in 1..GcmTagLen |->
        (SumSeq([i \in 1..Len(key) |-> key[i] * (i + j)])
         + SumSeq([i \in 1..Len(iv) |-> iv[i] * (2 * i + j)])
         + SumSeq([i \in 1..Len(aad) |-> aad[i] * (3 * i + j)])
         + SumSeq([i \in 1..Len(cipher) |-> cipher[i] * (5 * i + j)])) % 256] \o <<>>

KEY_privateKey == <<112, 114, 105, 118, 97, 116, 101, 75, 101, 121>>
KEY_fingerprint == <<102, 105, 110, 103, 101, 114, 112, 114, 105, 110, 116>>
KEY_timestamp == <<116, 105, 109, 101, 115, 116, 97, 109, 112>>
KEY_key == <<107, 101, 121>>
KEY_iv == <<105, 118>>
KEY_authTag == <<97, 117, 116, 104, 84, 97, 103>>
KEY_encrypted == <<101, 110, 99, 114, 121, 112, 116, 101, 100>>

\* encryptPromise; now is Date.now(), key and iv are the crypto.randomBytes
encryptPromise(content, privateKey, fingerprintData, now, key, iv) ==
    LET combinedData ==
            JsonStringify(JObj(<< <<KEY_content, JStr(content)>>,
                                  <<KEY_privateKey, JStr(privateKey)>>,
                                  <<KEY_fingerprint, JStr(fingerprintData)>>,
                                  <<KEY_timestamp, JNum(now)>> >>))
        cipher == GcmEncrypt(key, iv, Utf8Encode(combinedData))
        encrypted == ToHex(cipher)
        authTag == GcmTag(key, iv, PROMISE_AAD, cipher)
        encryptedPackage ==
            JObj(<< <<KEY_key, JStr(ToHex(key))>>,
                    <<KEY_iv, JStr(ToHex(iv))>>,
                    <<KEY_authTag, JStr(ToHex(authTag))>>,
                    <<KEY_encrypted, JStr(encrypted)>> >>)
    IN  ToBase64(Utf8Encode(JsonStringify(encryptedPackage)))

DecryptFailed == [ok |-> FALSE, v |-> JUndef]

\* variant: decipher.final accepts whatever tag it is given
TagAuthenticates_Unchecked(key, iv, aad, cipher, authTag) == TRUE

\* decipher.final: the tag set by setAuthTag, of the length it was given, is
\* the tag of the ciphertext under key, IV and associated data
TagAuthenticates(key, iv, aad, cipher, authTag) ==
    SubSeq(GcmTag(key, iv, aad, cipher), 1, Len(authTag)) = authTag

\* the body of decryptPromise, the decipher given associated data aad;
\* ok = FALSE is the thrown 'Failed to decrypt promise data'
DecryptPackage(encryptedData, aad) ==
    LET pkg == JsonParse(Utf8Decode(FromBase64(encryptedData))) IN
    IF ~pkg.ok THEN DecryptFailed
    ELSE LET k == Get(pkg.v, KEY_key)
             v == Get(pkg.v, KEY_iv)
             t == Get(pkg.v, KEY_authTag)
             e == Get(pkg.v, KEY_encrypted)
         IN
         \* Buffer.from and decipher.update reject a value that is no string
         IF k.k # "str" \/ v.k # "str" \/ t.k # "str" \/ e.k # "str"
         THEN DecryptFailed
         ELSE LET key == FromHex(k.s)
                  iv == FromHex(v.s)
                  authTag == FromHex(t.s)
                  cipher == FromHex(e.s)
              IN
              \* createDecipheriv: key and IV length; setAuthTag: tag length
              IF Len(key) # AesKeyLen \/ Len(iv) = 0
                 \/ Len(authTag) \notin ({4, 8} \cup (12..16))
              THEN DecryptFailed
              \* decipher.final: the tag does not authenticate
              ELSE IF ~TagAuthenticates(key, iv, aad, cipher, authTag)
              THEN DecryptFailed
              ELSE LET r == JsonParse(Utf8Decode(GcmDecrypt(key, iv, cipher))) IN
                   IF r.ok THEN [ok |-> TRUE, v |-> r.v] ELSE DecryptFailed

\* a decipher that is not given the associated data
decryptPromise_NoAad(encryptedData) == DecryptPackage(encryptedData, <<>>)
decryptPromise(encryptedData) == DecryptPackage(encryptedData, PROMISE_AAD)

\* SHA-256 and HMAC-SHA256 in hexadecimal.  Both are taken collision free:
\* the digest of a text is written as the hexadecimal of its UTF-8 bytes, so
\* that two texts have one digest exactly when their bytes are the same
Sha256Hex(text) == ToHex(Utf8Encode(text))
\* variant: an HMAC that does not depend on the message
HmacHex_Fixed(message) == ToHex(<<0>>)
\* createHmac('sha256', hmacKey).update(message).digest('hex'); the key is
\* the one fixed digest of 'promiseshare-cert-authority'
HmacHex(message) == ToHex(<<104>> \o Utf8Encode(message))

\* hashFingerprint: the hexadecimal SHA-256 of the text
hashFingerprint(fingerprintData) == S(Sha256Hex(fingerprintData.s))

ISSUER == <<80, 114, 111, 109, 105, 115, 101, 83, 104, 97, 114, 101, 32, 65, 117, 116, 104, 111, 114, 105, 116, 121>>
KEY_promiseId == <<112, 114, 111, 109, 105, 115, 101, 73, 100>>
KEY_publicKey == <<112, 117, 98, 108, 105, 99, 75, 101, 121>>
KEY_creatorFingerprint == <<99, 114, 101, 97, 116, 111, 114, 70, 105, 110, 103, 101, 114, 112, 114, 105, 110, 116>>
KEY_issuedAt == <<105, 115, 115, 117, 101, 100, 65, 116>>
KEY_issuer == <<105, 115, 115, 117, 101, 114>>
KEY_data == <<100, 97, 116, 97>>
KEY_signature == <<115, 105, 103, 110, 97, 116, 117, 114, 101>>

\* generateCertificate: base64 JSON of {data, signature}, the signature the
\* HMAC-SHA256 of JSON.stringify(data) under the fixed authority key; now is
\* Date.now()
generateCertificate(promiseId, publicKey, creatorFingerprint, now) ==
    LET certificateData ==
            JObj(<< <<KEY_promiseId, JStr(promiseId)>>,
                    <<KEY_publicKey, JStr(publicKey)>>,
                    <<KEY_creatorFingerprint, JStr(creatorFingerprint)>>,
                    <<KEY_issuedAt, JNum(now)>>,
                    <<KEY_issuer, JStr(ISSUER)>> >>)
        signature == HmacHex(JsonStringify(certificateData))
    IN  ToBase64(Utf8Encode(JsonStringify(
            JObj(<< <<KEY_data, certificateData>>,
                    <<KEY_signature, JStr(signature)>> >>))))

Returned(value) == [threw |-> FALSE, value |-> value]
Thrown == [threw |-> TRUE, value |-> FALSE]

\* the try block of validateCertificate
ValidateCertificateBody(certificate) ==
    LET parsed == JsonParse(Utf8Decode(FromBase64(certificate))) IN
    IF ~parsed.ok THEN Thrown
    \* null.data is a TypeError
    ELSE IF parsed.v.k = "null" THEN Thrown
    ELSE LET data == Get(parsed.v, KEY_data)
             signature == Get(parsed.v, KEY_signature)
         IN
         \* JSON.stringify(undefined) is undefined, which hmac.update rejects
         IF data.k = "undef" THEN Thrown
         ELSE LET expectedSignature == HmacHex(JsonStringify(data)) IN
              Returned(signature.k = "str" /\ signature.s = expectedSignature)

\* variant: validateCertificate without its catch
validateCertificate_NoCatch(certificate, publicKey) == ValidateCertificateBody(certificate)

\* variant: a certificate validates only with the key named in its data
validateCertificate_KeyBound(certificate, publicKey) ==
    LET r == ValidateCertificateBody(certificate) IN
    IF r.threw THEN Returned(FALSE)
    ELSE Returned(r.value /\ Get(Get(JsonParse(Utf8Decode(FromBase64(certificate))).v, KEY_data),
                                 KEY_publicKey) = JStr(publicKey))

\* validateCertificate; the catch answers false.  publicKey is not used
validateCertificate(certificate, publicKey) ==
    LET r == ValidateCertificateBody(certificate) IN
    IF r.threw THEN Returned(FALSE) ELSE r

----------------------------------------------------------------------------
\* routes.ts: the stored rows

DateValue(iso) == [t |-> "date", s |-> iso, h |-> <<>>]

ChallengeKeys == Users \X {"register", "auth"}
Nonces == {1, 2}
Times == {1700}
AesKey(seed) == [i \in 1..AesKeyLen |-> (seed * 7 + i * 13) % 256] \o <<>>
AesIv(seed) == [i \in 1..16 |-> (seed * 11 + i * 5) % 256] \o <<>>
\* the PEM text of the RSA key pair generated for promise n
PromisePrivateKey(n) == <<45, 45, 10, 75, 48 + n>>
PromisePublicKey(n) == <<45, 45, 10, 80, 48 + n>>
FingerprintData == <<115, 105, 103>>

CreatorOf(u) == [t |-> "obj", id |-> S(UserIdStr(u)), username |-> S(UserName(u))]
UserOfId(id) == CHOOSE u \in Users : S(UserIdStr(u)) = id

\* res.json followed by the client's JSON parse
ResJson(sp) ==
    [sp EXCEPT !.deliveryDate = ToJson(@), !.createdAt = ToJson(@)]

\* insertPromiseSchema: deliveryDate is optional, str ? new Date(str) : undefined;
\* the column stores null for undefined
ParseDeliveryDate(v) == IF Truthy(v) THEN DateValue(v.s) ELSE Null

\* promise.deliveryDate?.toISOString() || ""
DeliveryDateIso(p) ==
    IF p.deliveryDate.t = "date" THEN S(p.deliveryDate.s) ELSE S(<<>>)

SigningChallengeOf(p) ==
    generateSigningChallenge(p.id, p.title, p.content, DeliveryDateIso(p), p.creatorId)

\* the sealed envelope of a row, computed from the values it was sealed with
EncryptedDataOf(p) ==
    encryptPromise(p.content.s, p.sealed.privateKey, p.sealed.fingerprintData,
                   p.sealed.now, p.sealed.key, p.sealed.iv)

\* the server after start: empty tables, no pending challenge
InitStore ==
    /\ promises = <<>>
    /\ certificates = <<>>
    /\ credentials = {}
    /\ challenges = [k \in ChallengeKeys |-> 0]
    /\ file = NoFile
    /\ built = NoFile
    /\ edits = 0
    /\ result = NoResult

SealOf(phase, content, privateKey, fingerprint) ==
    [phase |-> phase, content |-> content, privateKey |-> privateKey,
     fingerprint |-> fingerprint, envelope |-> <<>>, tamper |-> "none",
     opened |-> DecryptFailed]

CertOf(phase, promiseId, publicKey, creatorFingerprint) ==
    [phase |-> phase, promiseId |-> promiseId, publicKey |-> publicKey,
     creatorFingerprint |-> creatorFingerprint, certificate |-> <<>>,
     change |-> "none", presented |-> <<>>, answer |-> Returned(FALSE)]

\* no function is being exercised on its own
SnapshotValue(id, title, content, deliveryDate, creatorId) ==
    [id |-> id, title |-> title, content |-> content,
     deliveryDate |-> deliveryDate, creatorId |-> creatorId]
SnapOf(phase, a) ==
    [phase |-> phase, a |-> a, b |-> a, changes |-> 0, ca |-> Undef, cb |-> Undef]

\* the authenticate/verify requests the model follows
ReqIds == 1..MaxRequests
NoRequest == [pc |-> "idle", user |-> "none", credentialId |-> Undef, presented |-> 0, expected |-> 0]
NoResponse == [status |-> 0, verified |-> FALSE, user |-> "none", challenge |-> 0]

NoReply ==
    [route |-> "none", user |-> "none", promiseId |-> Undef, status |-> 0,
     isValid |-> FALSE, decryptedData |-> JNull, decryptFailed |-> FALSE]

CertIdle == cert = CertOf("idle", <<>>, <<>>, <<>>)
SnapIdle == snap = SnapOf("idle", SnapshotValue(Undef, Undef, Undef, Undef, Undef))
AuthIdle ==
    /\ inflight = [r \in ReqIds |-> NoRequest]
    /\ responses = [r \in ReqIds |-> NoResponse]
    /\ issued = 0
ValidateIdle == shares = {} /\ reply = NoReply

\* no part is being exercised on its own
BenchIdle == CertIdle /\ SnapIdle /\ AuthIdle /\ ValidateIdle

Init == InitStore /\ seal = SealOf("idle", <<>>, <<>>, <<>>) /\ BenchIdle

\* POST /api/auth/webauthn/register
WebAuthnRegister(u) ==
    /\ IF \E c \in credentials : c.userId = u
       THEN UNCHANGED challenges
       ELSE \E n \in Nonces \ {challenges[<<u, "register">>]} :
                challenges' = [challenges EXCEPT ![<<u, "register">>] = n]
    /\ UNCHANGED <<promises, certificates, credentials, file, built, edits,
                   result, seal, benchVars>>

\* POST /api/auth/webauthn/register/verify; the response carries the challenge
\* the authenticator signed, its credential id and its key pair
WebAuthnRegisterVerify(u, nonce, credId, k) ==
    LET expectedChallenge == challenges[<<u, "register">>]
        verified == nonce = expectedChallenge
    IN
    /\ IF /\ expectedChallenge # 0
          /\ verified
          /\ \A c \in credentials : c.id # S(credId)
       THEN /\ credentials' = credentials \cup
                  {[id |-> S(credId), userId |-> u, publicKey |-> CoseB64(k),
                    counter |-> 0]}
            /\ challenges' = [challenges EXCEPT ![<<u, "register">>] = 0]
       ELSE UNCHANGED <<credentials, challenges>>
    /\ UNCHANGED <<promises, certificates, file, built, edits, result, seal, benchVars>>

\* the promise row the creation route stores as the n-th promise
PromiseRow(n, u, title, content, deliveryDate, recipient, fingerprintData, credentialId, now, key, iv) ==
    [id |-> S(PromiseIdStr(n)), title |-> title, content |-> content,
     deliveryDate |-> ParseDeliveryDate(deliveryDate),
     createdAt |-> DateValue(CreatedAtIso),
     creatorId |-> S(UserIdStr(u)),
     recipientId |-> S(UserIdStr(recipient)),
     credentialId |-> credentialId,
     fingerprint |-> hashFingerprint(credentialId),
     sealed |-> [privateKey |-> PromisePrivateKey(n),
                 fingerprintData |-> fingerprintData.s,
                 now |-> now, key |-> key, iv |-> iv, damage |-> "none"]]

\* variant: the certificate is issued for the digest of the fingerprint data
CertificateRow_OfFingerprintData(n, promise, now) ==
    [promiseId |-> promise.id,
     issued |-> [creatorFingerprint |-> Sha256Hex(promise.sealed.fingerprintData),
                 now |-> now, damage |-> "none"],
     publicKey |-> PromisePublicKey(n)]

\* the certificate row stored along with it
CertificateRow(n, promise, now) ==
    [promiseId |-> promise.id,
     issued |-> [creatorFingerprint |-> promise.fingerprint.s, now |-> now,
                 damage |-> "none"],
     publicKey |-> PromisePublicKey(n)]

\* the certificate text of a row, computed from the values it was issued with
CertificateOf(c) ==
    generateCertificate(c.promiseId.s, c.publicKey, c.issued.creatorFingerprint,
                        c.issued.now)

\* POST /api/promises
CreatePromise(u, title, content, deliveryDate, recipient, fingerprintData, credentialId, now, key, iv) ==
    /\ Len(promises) < MaxPromises
    /\ IF ~Truthy(fingerprintData) \/ ~Truthy(credentialId)
          \/ title.t # "str" \/ Len(title.s) < 1
          \/ content.t # "str" \/ Len(content.s) < 1
       THEN UNCHANGED <<promises, certificates>>
       ELSE LET n == Len(promises) + 1
                promise == PromiseRow(n, u, title, content, deliveryDate, recipient,
                                      fingerprintData, credentialId, now, key, iv)
            IN  /\ promises' = Append(promises, promise)
                /\ certificates' = Append(certificates, CertificateRow(n, promise, now))
    /\ UNCHANGED <<credentials, challenges, file, built, edits, result, seal, benchVars>>

\* what the sign route answers for a promise row of creator u
SignRouteAnswer(u, row, signature, publicKey) ==
    LET promise == [creator |-> CreatorOf(u)] @@ row
        challenge == SigningChallengeOf(promise)
        signedPromise ==
            createSignedPromiseFile(promise, signature, publicKey, challenge)
    IN  ResJson(signedPromise)

\* POST /api/promises/:id/sign; the answer becomes the holder's file
SignPromise(u, n, signature, publicKey) ==
    /\ IF n \in 1..Len(promises) /\ promises[n].creatorId = S(UserIdStr(u))
       THEN /\ file' = SignRouteAnswer(u, promises[n], signature, publicKey)
            /\ built' = file'
            /\ edits' = 0
            /\ result' = NoResult
       ELSE UNCHANGED <<file, built, edits, result>>
    /\ UNCHANGED <<promises, certificates, credentials, challenges, seal, benchVars>>

----------------------------------------------------------------------------
\* The holder of a file may change it before it is verified

OtherId == S(<<112, 57>>)
OtherTitle == S(<<85>>)
OtherUserId == S(<<117, 57>>)
NonceChallenge == S(<<110, 49>>)

\* the values an edit can give a top-level field
EditValues(f) ==
    IF f = "id" THEN {OtherId, Undef}
    ELSE IF f = "title" THEN {OtherTitle, Undef}
    ELSE IF f = "content" THEN {S(c) : c \in Contents} \cup {Undef}
    ELSE IF f = "deliveryDate"
         THEN {S(d) : d \in IsoDates} \cup {S(<<>>), Null, Undef}
    ELSE IF f = "createdAt" THEN {Undef}
    ELSE IF f = "encryptedContent" THEN {Undef}
    ELSE IF f = "challenge"
         THEN {NonceChallenge, Undef,
               generateSigningChallenge(file.id, file.title, file.content,
                                        file.deliveryDate, file.creator.id)}
    ELSE IF f = "rpId" THEN {S(EvilHost), S(<<>>), Undef}
    ELSE IF f = "publicKey" THEN {Pem(k) : k \in Keys} \cup {NoKey}
    ELSE IF f = "creator" THEN {NoCreator, [file.creator EXCEPT !.id = OtherUserId]}
    ELSE IF f = "signature"
         THEN {NoSignature,
               Assertion("kx", <<99, 57>>,
                         ClientData(WebAuthnGet, file.challenge, S(EvilOrigin))),
               Assertion("kx", <<99, 57>>, BadClientData)}
    ELSE {hashFingerprint(S(CredIdOf(u))) : u \in Users}

EditableFields ==
    {"id", "title", "content", "deliveryDate", "createdAt", "encryptedContent",
     "challenge", "rpId", "publicKey", "creator", "signature", "verification"}

EditFile(f, v) ==
    /\ file.shape = "object"
    /\ edits < MaxEdits
    /\ v # file[f]
    /\ file' = [file EXCEPT ![f] = v]
    /\ edits' = edits + 1
    /\ result' = NoResult
    /\ UNCHANGED <<promises, certificates, credentials, challenges, built, seal, benchVars>>

\* a value that is no promise object at all: null, or a number
ReplaceFile(shape) ==
    /\ file.shape = "object"
    /\ edits < MaxEdits
    /\ file' = BlankFile(shape)
    /\ edits' = edits + 1
    /\ result' = NoResult
    /\ UNCHANGED <<promises, certificates, credentials, challenges, built, seal, benchVars>>

\* a direct call of WebAuthnPromiseService.verifySignedPromise on the file
VerifySignedPromiseCall ==
    /\ file.shape # "none"
    /\ result' = verifySignedPromise(file)
    /\ UNCHANGED <<promises, certificates, credentials, challenges, file, built,
                   edits, seal, benchVars>>

ErrMissing == S(<<77, 105, 115, 115, 105, 110, 103>>)
ErrNotFound == S(<<78, 111, 116, 32, 102, 111, 117, 110, 100>>)
ErrMismatch == S(<<77, 105, 115, 109, 97, 116, 99, 104>>)

\* signedPromise.signature && signedPromise.signature.clientDataJSON
IsSignedPromise(sp) ==
    sp.shape # "null" /\ sp.signature.t = "obj" /\ sp.signature.clientDataJSON.t = "str"

\* POST /api/verify-promise with the file as body.signedPromise, db.promise
\* holding rows
verifyPromiseRouteWith(rows, sp) ==
    IF sp.shape = "null" THEN [NoResult EXCEPT !.path = "http400"]
    ELSE IF IsSignedPromise(sp)
    THEN LET r == verifySignedPromise(sp) IN
         IF r.path = "throw" THEN [NoResult EXCEPT !.path = "http400"] ELSE r
    ELSE IF ~Truthy(sp.verification)
    THEN [NoResult EXCEPT !.path = "plain", !.isDataIntact = TRUE,
                          !.errorDetails = ErrMissing]
    \* findUnique rejects a where clause without an id
    ELSE IF sp.id.t # "str" THEN [NoResult EXCEPT !.path = "http400"]
    ELSE IF \A n \in 1..Len(rows) : rows[n].id # sp.id
    THEN [NoResult EXCEPT !.path = "plain", !.errorDetails = ErrNotFound]
    ELSE LET dbPromise == rows[CHOOSE n \in 1..Len(rows) : rows[n].id = sp.id]
             isValid == dbPromise.fingerprint = sp.verification
         IN  [path |-> "plain", isValid |-> isValid, isSignatureValid |-> isValid,
              isChallengeValid |-> isValid, isDataIntact |-> TRUE,
              isClientDataValid |-> FALSE,
              creator |-> S(UserName(UserOfId(dbPromise.creatorId))),
              errorDetails |-> IF isValid THEN Undef ELSE ErrMismatch]

\* variant: the signed path answers only for a promise the server stores
verifyPromiseRoute_Stored(sp) ==
    IF IsSignedPromise(sp) /\ \A n \in 1..Len(promises) : promises[n].id # sp.id
    THEN [NoResult EXCEPT !.path = "plain", !.errorDetails = ErrNotFound]
    ELSE verifyPromiseRouteWith(promises, sp)

\* variant: the plain path also compares the content with the stored row
verifyPromiseRoute_Content(sp) ==
    LET r == verifyPromiseRouteWith(promises, sp) IN
    IF r.path = "plain" /\ r.isValid
       /\ \E n \in 1..Len(promises) : promises[n].id = sp.id /\ promises[n].content # sp.content
    THEN [r EXCEPT !.isValid = FALSE, !.isSignatureValid = FALSE,
                   !.isChallengeValid = FALSE, !.errorDetails = ErrMismatch]
    ELSE r

verifyPromiseRoute(sp) == verifyPromiseRouteWith(promises, sp)

VerifyPromiseRoute ==
    /\ file.shape # "none"
    /\ result' = verifyPromiseRoute(file)
    /\ UNCHANGED <<promises, certificates, credentials, challenges, file, built,
                   edits, seal, benchVars>>

\* the downloadablePromise of a row as the client reads it; verification
\* stands for verification.fingerprint
DownloadablePromise(promise) ==
    ResJson([BlankFile("object") EXCEPT
                !.id = promise.id, !.title = promise.title,
                !.content = promise.content,
                !.deliveryDate = promise.deliveryDate,
                !.createdAt = promise.createdAt,
                !.creator = CreatorOf(UserOfId(promise.creatorId)),
                !.verification = promise.fingerprint])

\* db.promise.findFirst of the download route: the rows with that id that
\* user u created, receives or is shared
DownloadFindFirst(u, promiseId) ==
    {n \in 1..Len(promises) :
        /\ promises[n].id = promiseId
        /\ \/ promises[n].creatorId = S(UserIdStr(u))
           \/ promises[n].recipientId = S(UserIdStr(u))
           \/ <<promiseId, u>> \in shares}

\* GET /api/promises/:id/download of user u; the answer becomes the holder's
\* file
DownloadPromise(u, promiseId) ==
    /\ IF DownloadFindFirst(u, promiseId) = {}
       THEN UNCHANGED <<file, built, edits, result>>
       ELSE /\ file' = DownloadablePromise(
                           promises[CHOOSE n \in DownloadFindFirst(u, promiseId) : TRUE])
            /\ built' = file'
            /\ edits' = 0
            /\ result' = NoResult
    /\ UNCHANGED <<promises, certificates, credentials, challenges, seal, benchVars>>

----------------------------------------------------------------------------
\* The requests clients send

\* the assertion the signing page obtains: the creator's authenticator signs
\* client data that carries the promise's signing challenge
HonestAssertion(p) ==
    LET u == UserOfId(p.creatorId) IN
    Assertion(KeyOf(u), CredIdOf(u),
              ClientData(WebAuthnGet, SigningChallengeOf(p), S(ORIGIN)))

\* the signature bodies a client u sends for promise row p: the honest
\* assertion, one made on another origin, one over a login nonce that names no
\* origin, a registration's client data, client data that is the text null,
\* and none
SignatureInputsFor(u, p) ==
    LET challenge == SigningChallengeOf(p) IN
    {Assertion(KeyOf(UserOfId(p.creatorId)), CredIdOf(UserOfId(p.creatorId)),
               ClientData(WebAuthnGet, challenge, S(ORIGIN))),
     Assertion(KeyOf(u), CredIdOf(u),
               ClientData(WebAuthnGet, challenge, S(EvilOrigin))),
     Assertion(KeyOf(u), CredIdOf(u),
               ClientData(WebAuthnGet, NonceChallenge, Undef)),
     Assertion(KeyOf(u), CredIdOf(u),
               ClientData(WebAuthnCreate, challenge, S(ORIGIN))),
     Assertion(KeyOf(u), CredIdOf(u), NullClientData),
     NoSignature}
SignatureInputs(u, n) ==
    IF n \notin 1..Len(promises) THEN {NoSignature}
    ELSE SignatureInputsFor(u, promises[n])

\* /api/auth/credentials answers with the stored public key; a client can
\* also send the PEM form of the key
PublicKeyInputs(u) ==
    {c.publicKey : c \in {d \in credentials : d.userId = u}}
        \cup {Pem(KeyOf(u)), CoseB64(KeyOf(u))}

DeliveryDateInputs == {S(CHOOSE d \in IsoDates : TRUE), S(<<>>), Undef}

\* the content promises are created with; the other content is what an edit
\* of the file changes it to
CreatedContents == {CHOOSE c \in Contents : TRUE}

Next ==
    \/ \E u \in Users : WebAuthnRegister(u)
    \/ \E u \in Users, nonce \in Nonces :
           WebAuthnRegisterVerify(u, nonce, CredIdOf(u), KeyOf(u))
    \/ \E u \in Users, t \in Titles, c \in CreatedContents, d \in DeliveryDateInputs,
          now \in Times :
           \E cred \in {S(CredIdOf(u)), Undef} :
           CreatePromise(u, S(t), S(c), d, CHOOSE r \in Users : r # u,
                         S(FingerprintData), cred, now, AesKey(1), AesIv(1))
    \/ \E u \in Users, n \in 1..MaxPromises :
           \E sig \in SignatureInputs(u, n), pk \in PublicKeyInputs(u) :
               SignPromise(u, n, sig, pk)
    \/ \E f \in EditableFields : \E v \in EditValues(f) : EditFile(f, v)
    \/ \E shape \in {"null", "number"} : ReplaceFile(shape)
    \/ VerifySignedPromiseCall
    \/ VerifyPromiseRoute

Spec == Init /\ [][Next]_vars

\* registration and promise creation alone
NextCreate ==
    \/ \E u \in Users : WebAuthnRegister(u)
    \/ \E u \in Users, nonce \in Nonces :
           WebAuthnRegisterVerify(u, nonce, CredIdOf(u), KeyOf(u))
    \/ \E u \in Users, t \in Titles, c \in Contents, d \in DeliveryDateInputs,
          now \in Times :
           \E cred \in {S(CredIdOf(v)) : v \in Users} \cup {Undef} :
           CreatePromise(u, S(t), S(c), d, CHOOSE r \in Users : r # u,
                         S(FingerprintData), cred, now, AesKey(1), AesIv(1))

SpecCreate == Init /\ [][NextCreate]_vars

\* verifySignedPromise on its own: the file is any answer of the sign route
\* for a promise the creation route stored, then edited by its holder
InitVerify ==
    \E u \in Users, t \in Titles, c \in Contents, d \in DeliveryDateInputs,
       now \in Times :
        LET row == PromiseRow(1, u, S(t), S(c), d, CHOOSE r \in Users : r # u,
                              S(FingerprintData), S(CredIdOf(u)), now,
                              AesKey(1), AesIv(1))
        IN  \E sig \in SignatureInputsFor(u, row),
               pk \in {Pem(KeyOf(u)), CoseB64(KeyOf(u))} :
                /\ promises = <<row>>
                /\ certificates = <<CertificateRow(1, row, now)>>
                /\ credentials = {}
                /\ challenges = [k \in ChallengeKeys |-> 0]
                /\ file = SignRouteAnswer(u, row, sig, pk)
                /\ built = SignRouteAnswer(u, row, sig, pk)
                /\ edits = 0
                /\ result = NoResult
                /\ seal = SealOf("idle", <<>>, <<>>, <<>>)
                /\ BenchIdle

NextVerify ==
    \/ \E f \in EditableFields : \E v \in EditValues(f) : EditFile(f, v)
    \/ \E shape \in {"null", "number"} : ReplaceFile(shape)
    \/ VerifySignedPromiseCall

SpecVerify == InitVerify /\ [][NextVerify]_vars

\* the files of one creator and content, verified by the function or sent to
\* /api/verify-promise
InitRead ==
    /\ InitVerify
    /\ promises[1].creatorId = S(UserIdStr("u1"))
    /\ promises[1].content = S(CHOOSE c \in Contents : TRUE)

NextRead == NextVerify \/ VerifyPromiseRoute

SpecRead == InitRead /\ [][NextRead]_vars

----------------------------------------------------------------------------
\* crypto.ts on its own: sealing a triple of strings and opening the envelope

\* characters of the sealed strings: a quote, a backslash, a line feed, the
\* letter n, a two-byte character and a surrogate without its pair
SealChars == {34, 92, 10, 110, 233, 55296}
SealStrings == UNION {[1..k -> SealChars] : k \in 0..MaxLen}
\* every content / private key / fingerprint triple of MaxLen characters or
\* fewer in all
SealInputs ==
    UNION {UNION {{<<SubSeq(s, 1, i), SubSeq(s, i + 1, j), SubSeq(s, j + 1, Len(s))>> :
                      j \in i..Len(s)} : i \in 0..Len(s)} : s \in SealStrings}
RandomSeeds == {1, 2}

InitSeal ==
    /\ InitStore
    /\ \E t \in SealInputs : seal = SealOf("input", t[1], t[2], t[3])
    /\ BenchIdle

EncryptPromiseCall ==
    /\ seal.phase = "input"
    /\ \E now \in Times, seed \in RandomSeeds :
           seal' = [seal EXCEPT !.phase = "sealed",
                                !.envelope = encryptPromise(seal.content, seal.privateKey,
                                                 seal.fingerprint, now,
                                                 AesKey(seed), AesIv(seed))]
    /\ UNCHANGED <<promises, certificates, credentials, challenges, file, built,
                   edits, result, benchVars>>

\* the envelope is all decryptPromise is given
DecryptPromiseCall ==
    /\ seal.phase = "sealed"
    /\ seal' = [seal EXCEPT !.phase = "opened", !.opened = decryptPromise(seal.envelope)]
    /\ UNCHANGED <<promises, certificates, credentials, challenges, file, built,
                   edits, result, benchVars>>

NextSeal == EncryptPromiseCall \/ DecryptPromiseCall

SpecSeal == InitSeal /\ [][NextSeal]_vars

----------------------------------------------------------------------------
\* decryptPromise on envelopes that were changed after sealing

\* the ways an envelope reaches decryptPromise changed: text that is no
\* base64 of JSON, JSON that lacks a member or holds a key, IV or tag of a
\* length the decipher rejects, a tag that belongs to other data, plaintext
\* that is no JSON sealed under the envelope's own key, and a line break put
\* into the base64 text
MalformedKinds ==
    {"garbage", "notJson", "jsonNull", "noKey", "noIv", "noTag", "noCipher",
     "shortKey", "emptyIv", "shortTag"}
TagMismatchKinds == {"tagFlip", "cipherFlip", "ivFlip", "keyFlip", "otherAad"}
TamperKinds == MalformedKinds \cup TagMismatchKinds \cup {"plainNotJson", "lineBreak"}

SetMember(members, key, v) ==
    [i \in 1..Len(members) |-> IF members[i][1] = key THEN <<key, v>> ELSE members[i]]

Tampered(envelope, kind) ==
    LET pkg == JsonParse(Utf8Decode(FromBase64(envelope))).v
        Hex(k) == Get(pkg, k).s
        key == FromHex(Hex(KEY_key))
        iv == FromHex(Hex(KEY_iv))
        cipher == FromHex(Hex(KEY_encrypted))
        Encode(members) == ToBase64(Utf8Encode(JsonStringify(JObj(members))))
        With(k, v) == Encode(SetMember(pkg.m, k, v))
        Bump(k) == With(k, JStr(ToHex([FromHex(Hex(k)) EXCEPT ![1] = (@ + 1) % 256])))
        other == GcmEncrypt(key, iv, <<97, 98, 99>>)
    IN  CASE kind = "garbage" -> <<37, 37, 37, 37>>
          [] kind = "notJson" -> ToBase64(<<97, 98, 99>>)
          [] kind = "jsonNull" -> ToBase64(TEXT_null)
          [] kind = "noKey" -> With(KEY_key, JUndef)
          [] kind = "noIv" -> With(KEY_iv, JUndef)
          [] kind = "noTag" -> With(KEY_authTag, JUndef)
          [] kind = "noCipher" -> With(KEY_encrypted, JUndef)
          [] kind = "shortKey" -> With(KEY_key, JStr(SubSeq(Hex(KEY_key), 3, 2 * AesKeyLen)))
          [] kind = "emptyIv" -> With(KEY_iv, JStr(<<>>))
          [] kind = "shortTag" -> With(KEY_authTag, JStr(SubSeq(Hex(KEY_authTag), 1, 6)))
          [] kind = "tagFlip" -> Bump(KEY_authTag)
          [] kind = "cipherFlip" -> Bump(KEY_encrypted)
          [] kind = "ivFlip" -> Bump(KEY_iv)
          [] kind = "keyFlip" -> Bump(KEY_key)
          [] kind = "otherAad" ->
                 With(KEY_authTag, JStr(ToHex(GcmTag(key, iv, <<>>, cipher))))
          [] kind = "plainNotJson" ->
                 Encode(SetMember(SetMember(pkg.m, KEY_encrypted, JStr(ToHex(other))),
                                  KEY_authTag,
                                  JStr(ToHex(GcmTag(key, iv, PROMISE_AAD, other)))))
          [] OTHER -> SubSeq(envelope, 1, 4) \o <<10>> \o SubSeq(envelope, 5, Len(envelope))

TamperEnvelope(kind) ==
    /\ seal.phase = "sealed" /\ seal.tamper = "none"
    /\ seal' = [seal EXCEPT !.tamper = kind, !.envelope = Tampered(seal.envelope, kind)]
    /\ UNCHANGED <<promises, certificates, credentials, challenges, file, built,
                   edits, result, benchVars>>

\* one character for each of content, private key and fingerprint
InitOpen ==
    /\ InitStore
    /\ \E c \in SealChars : seal = SealOf("input", <<c>>, <<c>>, <<c>>)
    /\ BenchIdle

NextOpen ==
    \/ EncryptPromiseCall
    \/ \E kind \in TamperKinds : TamperEnvelope(kind)
    \/ DecryptPromiseCall

SpecOpen == InitOpen /\ [][NextOpen]_vars

----------------------------------------------------------------------------
\* crypto.ts on its own: issuing a certificate and validating it, as issued or
\* changed after it was issued

\* characters of the certified strings: a quote, the letter n and a surrogate
\* without its pair
CertChars == {34, 110, 55296}
CertStrings == UNION {[1..k -> CertChars] : k \in 0..MaxLen}
\* every promise id / public key / fingerprint triple of MaxLen characters or
\* fewer in all
CertInputs ==
    UNION {UNION {{<<SubSeq(s, 1, i), SubSeq(s, i + 1, j), SubSeq(s, j + 1, Len(s))>> :
                      j \in i..Len(s)} : i \in 0..Len(s)} : s \in CertStrings}
OtherPublicKey == <<45, 45, 10, 88>>

\* a member of data given another value, the signature kept
DataFieldKinds == {"promiseId", "publicKey", "creatorFingerprint", "issuedAt", "issuer"}
\* text that is no base64 of JSON, JSON that is no object, an object without
\* data or without signature, and a signature that is not the HMAC of data
MalformedCertKinds ==
    {"garbage", "notJson", "jsonNull", "jsonNumber", "noData", "noSignature",
     "signatureFlip", "signatureNumber"}
CertChangeKinds == DataFieldKinds \cup MalformedCertKinds

ChangedCertificate(certificate, kind) ==
    LET parsed == JsonParse(Utf8Decode(FromBase64(certificate))).v
        data == Get(parsed, KEY_data)
        signature == Get(parsed, KEY_signature).s
        Encode(members) == ToBase64(Utf8Encode(JsonStringify(JObj(members))))
        With(k, v) == Encode(SetMember(parsed.m, k, v))
        WithData(k, v) == With(KEY_data, JObj(SetMember(data.m, k, v)))
        Longer(k) == WithData(k, JStr(Get(data, k).s \o <<120>>))
    IN  CASE kind = "promiseId" -> Longer(KEY_promiseId)
          [] kind = "publicKey" -> Longer(KEY_publicKey)
          [] kind = "creatorFingerprint" -> Longer(KEY_creatorFingerprint)
          [] kind = "issuedAt" -> WithData(KEY_issuedAt, JNum(Get(data, KEY_issuedAt).n + 1))
          [] kind = "issuer" -> Longer(KEY_issuer)
          [] kind = "garbage" -> <<37, 37, 37, 37>>
          [] kind = "notJson" -> ToBase64(<<97, 98, 99>>)
          [] kind = "jsonNull" -> ToBase64(TEXT_null)
          [] kind = "jsonNumber" -> ToBase64(<<55>>)
          [] kind = "noData" -> With(KEY_data, JUndef)
          [] kind = "noSignature" -> With(KEY_signature, JUndef)
          [] kind = "signatureFlip" ->
                 With(KEY_signature,
                      JStr([signature EXCEPT ![1] = IF @ = 48 THEN 49 ELSE 48]))
          [] OTHER -> With(KEY_signature, JNum(1))

InitCert ==
    /\ InitStore
    /\ seal = SealOf("idle", <<>>, <<>>, <<>>)
    /\ \E t \in CertInputs : cert = CertOf("input", t[1], t[2], t[3])
    /\ SnapIdle /\ AuthIdle /\ ValidateIdle

GenerateCertificateCall ==
    /\ cert.phase = "input"
    /\ \E now \in Times :
           cert' = [cert EXCEPT !.phase = "issued",
                                !.certificate = generateCertificate(cert.promiseId,
                                                    cert.publicKey,
                                                    cert.creatorFingerprint, now)]
    /\ UNCHANGED <<promises, certificates, credentials, challenges, file, built,
                   edits, result, seal, snap, authVars, validateVars>>

ChangeCertificate(kind) ==
    /\ cert.phase = "issued"
    /\ cert.change = "none"
    /\ cert' = [cert EXCEPT !.change = kind,
                            !.certificate = ChangedCertificate(cert.certificate, kind)]
    /\ UNCHANGED <<promises, certificates, credentials, challenges, file, built,
                   edits, result, seal, snap, authVars, validateVars>>

ValidateCertificateCall(publicKey) ==
    /\ cert.phase = "issued"
    /\ cert' = [cert EXCEPT !.phase = "checked", !.presented = publicKey,
                            !.answer = validateCertificate(cert.certificate, publicKey)]
    /\ UNCHANGED <<promises, certificates, credentials, challenges, file, built,
                   edits, result, seal, snap, authVars, validateVars>>

NextCert ==
    \/ GenerateCertificateCall
    \/ \E kind \in CertChangeKinds : ChangeCertificate(kind)
    \/ \E publicKey \in {cert.publicKey, OtherPublicKey} : ValidateCertificateCall(publicKey)

SpecCert == InitCert /\ [][NextCert]_vars

----------------------------------------------------------------------------
\* generateSigningChallenge on its own: the challenges of two snapshots

MaxChanges == 2

\* field values: the empty string and a quote
SnapValues == {S(<<>>), S(<<34>>)}
\* values a field of the second snapshot is given: those, a backslash, the
\* string "null", null, and undefined (the field is not there)
SnapChangeValues == SnapValues \cup {S(<<92>>), S(TEXT_null), Null, Undef}
SnapFields == {"id", "title", "content", "deliveryDate", "creatorId"}

ChallengeOfSnapshot(p) ==
    generateSigningChallenge(p.id, p.title, p.content, p.deliveryDate, p.creatorId)

InitSnap ==
    /\ InitStore
    /\ seal = SealOf("idle", <<>>, <<>>, <<>>)
    /\ CertIdle /\ AuthIdle /\ ValidateIdle
    /\ \E id \in SnapValues, title \in SnapValues, content \in SnapValues,
          deliveryDate \in SnapValues, creatorId \in SnapValues :
           snap = SnapOf("input", SnapshotValue(id, title, content, deliveryDate, creatorId))

\* the second snapshot is the first with fields given other values
ChangeSnapshot(f, v) ==
    /\ snap.phase = "input"
    /\ snap.changes < MaxChanges
    /\ v # snap.b[f]
    /\ snap' = [snap EXCEPT !.b[f] = v, !.changes = @ + 1]
    /\ UNCHANGED <<promises, certificates, credentials, challenges, file, built,
                   edits, result, seal, cert, authVars, validateVars>>

GenerateSigningChallengeCalls ==
    /\ snap.phase = "input"
    /\ snap' = [snap EXCEPT !.phase = "hashed",
                            !.ca = ChallengeOfSnapshot(snap.a),
                            !.cb = ChallengeOfSnapshot(snap.b)]
    /\ UNCHANGED <<promises, certificates, credentials, challenges, file, built,
                   edits, result, seal, cert, authVars, validateVars>>

NextSnap ==
    \/ \E f \in SnapFields, v \in SnapChangeValues : ChangeSnapshot(f, v)
    \/ GenerateSigningChallengeCalls

SpecSnap == InitSnap /\ [][NextSnap]_vars

----------------------------------------------------------------------------
\* routes.ts: the authentication challenge of a user, from authenticate/begin
\* to authenticate/verify.  A handler runs from one await to the next without
\* interruption; at an await any other request may run

\* every user has registered a credential
InitAuth ==
    /\ promises = <<>>
    /\ certificates = <<>>
    /\ credentials = {[id |-> S(CredIdOf(u)), userId |-> u,
                       publicKey |-> CoseB64(KeyOf(u)), counter |-> 0] : u \in Users}
    /\ challenges = [k \in ChallengeKeys |-> 0]
    /\ file = NoFile /\ built = NoFile /\ edits = 0 /\ result = NoResult
    /\ seal = SealOf("idle", <<>>, <<>>, <<>>)
    /\ CertIdle /\ SnapIdle /\ AuthIdle /\ ValidateIdle

Respond(r, status, verified) ==
    [responses EXCEPT ![r] = [status |-> status, verified |-> verified,
                              user |-> inflight[r].user,
                              challenge |-> inflight[r].expected]]

\* variant: a pending challenge is kept, the new one is set only when the key
\* has no entry
AuthenticateBegin_KeepPending(u) ==
    /\ issued < MaxIssued
    /\ issued' = issued + 1
    /\ challenges' = IF challenges[<<u, "auth">>] = 0
                     THEN [challenges EXCEPT ![<<u, "auth">>] = issued + 1]
                     ELSE challenges
    /\ UNCHANGED <<promises, certificates, credentials, fileVars, seal, cert, snap,
                   inflight, responses, validateVars>>

\* POST /api/auth/webauthn/authenticate/begin: generateAuthenticationOptions
\* draws a challenge no earlier one equals, challenges.set stores it
AuthenticateBegin(u) ==
    /\ issued < MaxIssued
    /\ issued' = issued + 1
    /\ challenges' = [challenges EXCEPT ![<<u, "auth">>] = issued + 1]
    /\ UNCHANGED <<promises, certificates, credentials, fileVars, seal, cert, snap,
                   inflight, responses, validateVars>>

\* POST /api/auth/webauthn/authenticate/verify up to db.credential.findUnique:
\* user u sends an assertion of credential credId over challenge n
AuthenticateVerifyReceive(r, u, credId, n) ==
    /\ inflight[r] = NoRequest /\ responses[r] = NoResponse
    /\ LET expectedChallenge == challenges[<<u, "auth">>]
           req == [pc |-> "findCredential", user |-> u, credentialId |-> S(credId),
                   presented |-> n, expected |-> expectedChallenge]
       IN  IF expectedChallenge = 0
           THEN /\ responses' = [responses EXCEPT ![r] =
                                    [status |-> 400, verified |-> FALSE, user |-> u,
                                     challenge |-> 0]]
                /\ inflight' = [inflight EXCEPT ![r] = [req EXCEPT !.pc = "done"]]
           ELSE /\ inflight' = [inflight EXCEPT ![r] = req]
                /\ UNCHANGED responses
    /\ UNCHANGED <<promises, certificates, credentials, challenges, fileVars, seal,
                   cert, snap, issued, validateVars>>

\* from the answer of findUnique to verifyAuthenticationResponse
AuthenticateVerifyCredential(r) ==
    /\ inflight[r].pc = "findCredential"
    /\ IF \E c \in credentials : c.id = inflight[r].credentialId /\ c.userId = inflight[r].user
       THEN /\ inflight' = [inflight EXCEPT ![r].pc = "verify"]
            /\ UNCHANGED responses
       ELSE /\ inflight' = [inflight EXCEPT ![r].pc = "done"]
            /\ responses' = Respond(r, 400, FALSE)
    /\ UNCHANGED <<promises, certificates, credentials, challenges, fileVars, seal,
                   cert, snap, issued, validateVars>>

\* variant: a failed verification removes the entry
AuthenticateVerifyAssertion_Expire(r) ==
    /\ inflight[r].pc = "verify"
    /\ IF inflight[r].presented = inflight[r].expected
       THEN /\ inflight' = [inflight EXCEPT ![r].pc = "update"]
            /\ UNCHANGED <<responses, challenges>>
       ELSE /\ inflight' = [inflight EXCEPT ![r].pc = "done"]
            /\ responses' = Respond(r, 400, FALSE)
            /\ challenges' = [challenges EXCEPT ![<<inflight[r].user, "auth">>] = 0]
    /\ UNCHANGED <<promises, certificates, credentials, fileVars, seal,
                   cert, snap, issued, validateVars>>

\* from the answer of verifyAuthenticationResponse, which rejects an assertion
\* over another challenge than the expected one, to db.credential.update; the
\* authenticator keeps no signature counter (counter 0)
AuthenticateVerifyAssertion(r) ==
    /\ inflight[r].pc = "verify"
    /\ IF inflight[r].presented = inflight[r].expected
       THEN /\ inflight' = [inflight EXCEPT ![r].pc = "update"]
            /\ UNCHANGED responses
       ELSE /\ inflight' = [inflight EXCEPT ![r].pc = "done"]
            /\ responses' = Respond(r, 400, FALSE)
    /\ UNCHANGED <<promises, certificates, credentials, challenges, fileVars, seal,
                   cert, snap, issued, validateVars>>

\* from the answer of db.credential.update to the end: challenges.delete and
\* the answer verified: true
AuthenticateVerifyFinish(r) ==
    /\ inflight[r].pc = "update"
    /\ challenges' = [challenges EXCEPT ![<<inflight[r].user, "auth">>] = 0]
    /\ inflight' = [inflight EXCEPT ![r].pc = "done"]
    /\ responses' = Respond(r, 200, TRUE)
    /\ UNCHANGED <<promises, certificates, credentials, fileVars, seal, cert, snap,
                   issued, validateVars>>

NextAuth ==
    \/ \E u \in Users : AuthenticateBegin(u)
    \/ \E r \in ReqIds, u \in Users, v \in Users, n \in 1..MaxIssued :
           n <= issued /\ AuthenticateVerifyReceive(r, u, CredIdOf(v), n)
    \/ \E r \in ReqIds : AuthenticateVerifyCredential(r)
    \/ \E r \in ReqIds : AuthenticateVerifyAssertion(r)
    \/ \E r \in ReqIds : AuthenticateVerifyFinish(r)

SpecAuth == InitAuth /\ [][NextAuth]_vars

----------------------------------------------------------------------------
\* routes.ts: the challenge registry under the registration and the
\* authentication requests of the users, each handler split at its awaits

\* the credential ids the authenticators of user u create
RegisteredCredIds(u) == {CredIdOf(u), CredIdOf(u) \o <<98>>}

InitRegistry == Init

\* POST /api/auth/webauthn/register up to db.credential.findMany
RegisterReceive(r, u) ==
    /\ inflight[r] = NoRequest /\ responses[r] = NoResponse
    /\ inflight' = [inflight EXCEPT ![r] = [NoRequest EXCEPT !.pc = "findCredentials", !.user = u]]
    /\ UNCHANGED <<promises, certificates, credentials, challenges, fileVars, seal,
                   cert, snap, responses, issued, validateVars>>

\* from the answer of findMany to generateRegistrationOptions: a user with a
\* credential is answered "WebAuthn already registered"
RegisterCredentials(r) ==
    /\ inflight[r].pc = "findCredentials"
    /\ IF \E c \in credentials : c.userId = inflight[r].user
       THEN /\ inflight' = [inflight EXCEPT ![r].pc = "done"]
            /\ responses' = Respond(r, 200, FALSE)
       ELSE /\ inflight' = [inflight EXCEPT ![r].pc = "options"]
            /\ UNCHANGED responses
    /\ UNCHANGED <<promises, certificates, credentials, challenges, fileVars, seal,
                   cert, snap, issued, validateVars>>

\* from the answer of generateRegistrationOptions, a challenge no earlier one
\* equals, to the end: challenges.set and the options as the answer
RegisterOptions(r) ==
    /\ inflight[r].pc = "options"
    /\ issued < MaxIssued
    /\ issued' = issued + 1
    /\ challenges' = [challenges EXCEPT ![<<inflight[r].user, "register">>] = issued + 1]
    /\ inflight' = [inflight EXCEPT ![r].pc = "done", ![r].expected = issued + 1]
    /\ responses' = [responses EXCEPT ![r] = [status |-> 200, verified |-> FALSE,
                                              user |-> inflight[r].user,
                                              challenge |-> issued + 1]]
    /\ UNCHANGED <<promises, certificates, credentials, fileVars, seal, cert, snap,
                   validateVars>>

\* POST /api/auth/webauthn/register/verify up to verifyRegistrationResponse:
\* user u sends the attestation of a new credential credId over challenge n
RegisterVerifyReceive(r, u, credId, n) ==
    /\ inflight[r] = NoRequest /\ responses[r] = NoResponse
    /\ LET expectedChallenge == challenges[<<u, "register">>]
           req == [pc |-> "verifyRegistration", user |-> u, credentialId |-> S(credId),
                   presented |-> n, expected |-> expectedChallenge]
       IN  IF expectedChallenge = 0
           THEN /\ responses' = [responses EXCEPT ![r] =
                                    [status |-> 400, verified |-> FALSE, user |-> u,
                                     challenge |-> 0]]
                /\ inflight' = [inflight EXCEPT ![r] = [req EXCEPT !.pc = "done"]]
           ELSE /\ inflight' = [inflight EXCEPT ![r] = req]
                /\ UNCHANGED responses
    /\ UNCHANGED <<promises, certificates, credentials, challenges, fileVars, seal,
                   cert, snap, issued, validateVars>>

\* from the answer of verifyRegistrationResponse, which rejects a response over
\* another challenge than the expected one, to db.credential.create
RegisterVerifyResponse(r) ==
    /\ inflight[r].pc = "verifyRegistration"
    /\ IF inflight[r].presented = inflight[r].expected
       THEN /\ inflight' = [inflight EXCEPT ![r].pc = "createCredential"]
            /\ UNCHANGED responses
       ELSE /\ inflight' = [inflight EXCEPT ![r].pc = "done"]
            /\ responses' = Respond(r, 400, FALSE)
    /\ UNCHANGED <<promises, certificates, credentials, challenges, fileVars, seal,
                   cert, snap, issued, validateVars>>

\* db.credential.create: the row is stored unless one has its id, and then the
\* call throws and the catch block answers 400
RegisterVerifyCreate(r) ==
    /\ inflight[r].pc = "createCredential"
    /\ IF \E c \in credentials : c.id = inflight[r].credentialId
       THEN /\ inflight' = [inflight EXCEPT ![r].pc = "done"]
            /\ responses' = Respond(r, 400, FALSE)
            /\ UNCHANGED credentials
       ELSE /\ credentials' = credentials \cup
                  {[id |-> inflight[r].credentialId, userId |-> inflight[r].user,
                    publicKey |-> CoseB64(KeyOf(inflight[r].user)), counter |-> 0]}
            /\ inflight' = [inflight EXCEPT ![r].pc = "cleanUp"]
            /\ UNCHANGED responses
    /\ UNCHANGED <<promises, certificates, challenges, fileVars, seal, cert, snap,
                   issued, validateVars>>

\* from the answer of db.credential.create to the end: challenges.delete and
\* the answer verified: true
RegisterVerifyFinish(r) ==
    /\ inflight[r].pc = "cleanUp"
    /\ challenges' = [challenges EXCEPT ![<<inflight[r].user, "register">>] = 0]
    /\ inflight' = [inflight EXCEPT ![r].pc = "done"]
    /\ responses' = Respond(r, 200, TRUE)
    /\ UNCHANGED <<promises, certificates, credentials, fileVars, seal, cert, snap,
                   issued, validateVars>>

\* the answer of a finished request was delivered; its slot follows the next
\* request
Delivered(r) ==
    /\ inflight[r].pc = "done"
    /\ inflight' = [inflight EXCEPT ![r] = NoRequest]
    /\ responses' = [responses EXCEPT ![r] = NoResponse]
    /\ UNCHANGED <<promises, certificates, credentials, challenges, fileVars, seal,
                   cert, snap, issued, validateVars>>

NextRegistry ==
    \/ \E r \in ReqIds, u \in Users : RegisterReceive(r, u)
    \/ \E r \in ReqIds : RegisterCredentials(r)
    \/ \E r \in ReqIds : RegisterOptions(r)
    \/ \E r \in ReqIds, u \in Users, n \in 1..MaxIssued :
           \E credId \in RegisteredCredIds(u) : n <= issued /\ RegisterVerifyReceive(r, u, credId, n)
    \/ \E r \in ReqIds : RegisterVerifyResponse(r)
    \/ \E r \in ReqIds : RegisterVerifyCreate(r)
    \/ \E r \in ReqIds : RegisterVerifyFinish(r)
    \/ \E u \in Users : AuthenticateBegin(u)
    \/ \E r \in ReqIds, u \in Users, n \in 1..MaxIssued :
           n <= issued /\ AuthenticateVerifyReceive(r, u, CredIdOf(u), n)
    \/ \E r \in ReqIds : AuthenticateVerifyCredential(r)
    \/ \E r \in ReqIds : AuthenticateVerifyAssertion(r)
    \/ \E r \in ReqIds : AuthenticateVerifyFinish(r)
    \/ \E r \in ReqIds : Delivered(r)

SpecRegistry == InitRegistry /\ [][NextRegistry]_vars

----------------------------------------------------------------------------
\* routes.ts and routes-old.ts: POST /api/promises/:id/validate

\* a stored text that is no longer the text that was written: cut off half
\* way, or one of its last characters another base64 character
DamagedText(text, kind) ==
    CASE kind = "none" -> text
      [] kind = "truncated" -> SubSeq(text, 1, Len(text) \div 2)
      [] OTHER -> [text EXCEPT ![Len(text) - 5] = IF @ = 65 THEN 66 ELSE 65]

\* the encryptedData column of a row
StoredEnvelopeOf(p) == DamagedText(EncryptedDataOf(p), p.sealed.damage)
\* the certificate column of a certificate row
StoredCertificateOf(c) == DamagedText(CertificateOf(c), c.issued.damage)

EnvelopeDamages == {"truncated", "characterChanged"}
CertificateDamages == {"characterChanged"}

\* the answer with a status and an error, no isValid and no decryptedData
ErrorReply(route, u, promiseId, status) ==
    [NoReply EXCEPT !.route = route, !.user = u, !.promiseId = promiseId,
                    !.status = status]

\* db.promise.findFirst of the validate route: the rows with that id that
\* user u created or that are shared with u
ValidateFindFirst(u, promiseId) ==
    {n \in 1..Len(promises) :
        /\ promises[n].id = promiseId
        /\ \/ promises[n].creatorId = S(UserIdStr(u))
           \/ <<promiseId, u>> \in shares}

\* what the try block makes of decryptPromise's outcome: the content of the
\* opened envelope, or null with the failure logged
OpenedContent(decrypted) ==
    IF decrypted.ok /\ decrypted.v.k # "null"
    THEN [failed |-> FALSE, data |-> Get(decrypted.v, KEY_content)]
    ELSE [failed |-> TRUE, data |-> JNull]

\* the try block around decryptPromise
DecryptedContent(promise) == OpenedContent(decryptPromise(StoredEnvelopeOf(promise)))

\* res.json of the validate route; decrypts says whether the try block was
\* entered, opened is what it made of the envelope
validateRouteAnswer(u, promiseId, isValid, decrypts, opened) ==
    [route |-> "validate", user |-> u, promiseId |-> promiseId,
     status |-> 200, isValid |-> isValid,
     decryptedData |-> IF decrypts THEN opened.data ELSE JNull,
     decryptFailed |-> decrypts /\ opened.failed]

\* variant: the creator is given the content whether or not the check passed
validateRoute_AlwaysDecrypt(u, promiseId, credentialId) ==
    IF ~Truthy(credentialId) THEN ErrorReply("validate", u, promiseId, 400)
    ELSE IF ValidateFindFirst(u, promiseId) = {}
    THEN ErrorReply("validate", u, promiseId, 404)
    ELSE LET promise == promises[CHOOSE n \in ValidateFindFirst(u, promiseId) : TRUE]
         IN  validateRouteAnswer(u, promiseId, promise.credentialId = credentialId,
                                 S(UserIdStr(u)) = promise.creatorId,
                                 DecryptedContent(promise))

\* POST /api/promises/:id/validate of user u with body {credentialId}
validateRoute(u, promiseId, credentialId) ==
    IF ~Truthy(credentialId) THEN ErrorReply("validate", u, promiseId, 400)
    ELSE IF ValidateFindFirst(u, promiseId) = {}
    THEN ErrorReply("validate", u, promiseId, 404)
    ELSE LET promise == promises[CHOOSE n \in ValidateFindFirst(u, promiseId) : TRUE]
         IN  validateRouteAnswer(u, promiseId, promise.credentialId = credentialId,
                                 /\ promise.credentialId = credentialId
                                 /\ S(UserIdStr(u)) = promise.creatorId,
                                 DecryptedContent(promise))

\* res.json of the old validate route: the creator is given the whole opened
\* envelope
validateRouteOldAnswer(u, promiseId, decrypts, isValid, decrypted) ==
    [route |-> "validateOld", user |-> u, promiseId |-> promiseId,
     status |-> 200, isValid |-> isValid,
     decryptedData |-> IF decrypts /\ isValid /\ decrypted.ok THEN decrypted.v ELSE JNull,
     decryptFailed |-> decrypts /\ isValid /\ ~decrypted.ok]

\* routes-old.ts, POST /api/promises/:id/validate: the check is the
\* certificate's
validateRouteOld(u, promiseId) ==
    LET found == {n \in 1..Len(promises) : promises[n].id = promiseId}
        certs == {n \in 1..Len(certificates) : certificates[n].promiseId = promiseId}
    IN
    IF found = {} \/ certs = {} THEN ErrorReply("validateOld", u, promiseId, 404)
    ELSE LET promise == promises[CHOOSE n \in found : TRUE]
             certificate == certificates[CHOOSE n \in certs : \A m \in certs : n <= m]
         IN  validateRouteOldAnswer(
                 u, promiseId, S(UserIdStr(u)) = promise.creatorId,
                 validateCertificate(StoredCertificateOf(certificate),
                                     certificate.publicKey).value,
                 decryptPromise(StoredEnvelopeOf(promise)))

\* a promise of every creator and content, stored by the creation route
\* together with its certificate
InitValidate ==
    \E u \in Users, t \in Titles, c \in Contents, d \in {Undef}, now \in Times :
        LET row == PromiseRow(1, u, S(t), S(c), d, CHOOSE r \in Users : r # u,
                              S(FingerprintData), S(CredIdOf(u)), now,
                              AesKey(1), AesIv(1))
        IN  /\ promises = <<row>>
            /\ certificates = <<CertificateRow(1, row, now)>>
            /\ credentials = {}
            /\ challenges = [k \in ChallengeKeys |-> 0]
            /\ file = NoFile /\ built = NoFile /\ edits = 0 /\ result = NoResult
            /\ seal = SealOf("idle", <<>>, <<>>, <<>>)
            /\ CertIdle /\ SnapIdle /\ AuthIdle /\ ValidateIdle

\* POST /api/promises/:id/share of user u with body {userIds: [v]}
SharePromise(u, n, v) ==
    /\ IF n \in 1..Len(promises) /\ promises[n].creatorId = S(UserIdStr(u))
       THEN shares' = shares \cup {<<S(PromiseIdStr(n)), v>>}
       ELSE UNCHANGED shares
    /\ UNCHANGED <<promises, certificates, credentials, challenges, fileVars, seal,
                   cert, snap, authVars, reply>>

\* the database row of a promise no longer holds the envelope that was
\* stored: the failure the validate routes catch
EnvelopeDamaged(n, kind) ==
    /\ n \in 1..Len(promises)
    /\ promises[n].sealed.damage = "none"
    /\ promises' = [promises EXCEPT ![n].sealed.damage = kind]
    /\ UNCHANGED <<certificates, credentials, challenges, fileVars, seal, cert,
                   snap, authVars, validateVars>>

CertificateDamaged(n, kind) ==
    /\ n \in 1..Len(certificates)
    /\ certificates[n].issued.damage = "none"
    /\ certificates' = [certificates EXCEPT ![n].issued.damage = kind]
    /\ UNCHANGED <<promises, credentials, challenges, fileVars, seal, cert, snap,
                   authVars, validateVars>>

\* variant: the validate route seals the content again and stores the new
\* envelope
ValidatePromise_Reseal(u, promiseId, credentialId) ==
    /\ reply' = validateRoute(u, promiseId, credentialId)
    /\ promises' = [n \in 1..Len(promises) |->
                       IF promises[n].id = promiseId /\ reply'.status = 200
                       THEN [promises[n] EXCEPT !.sealed.now = @ + 1]
                       ELSE promises[n]]
    /\ UNCHANGED <<certificates, credentials, challenges, fileVars, seal,
                   cert, snap, authVars, shares>>

ValidatePromise(u, promiseId, credentialId) ==
    /\ reply' = validateRoute(u, promiseId, credentialId)
    /\ UNCHANGED <<promises, certificates, credentials, challenges, fileVars, seal,
                   cert, snap, authVars, shares>>

ValidatePromiseOld(u, promiseId) ==
    /\ reply' = validateRouteOld(u, promiseId)
    /\ UNCHANGED <<promises, certificates, credentials, challenges, fileVars, seal,
                   cert, snap, authVars, shares>>

NextValidate ==
    \/ \E u \in Users, n \in 1..MaxPromises :
           \E v \in Users \ {u} : SharePromise(u, n, v)
    \/ \E n \in 1..MaxPromises, kind \in EnvelopeDamages : EnvelopeDamaged(n, kind)
    \/ \E n \in 1..MaxPromises, kind \in CertificateDamages : CertificateDamaged(n, kind)
    \/ \E u \in Users, id \in {S(PromiseIdStr(1)), OtherId} :
           \E credentialId \in {S(CredIdOf(v)) : v \in Users} \cup {Undef} :
               ValidatePromise(u, id, credentialId)
    \/ \E u \in Users, id \in {S(PromiseIdStr(1)), OtherId} : ValidatePromiseOld(u, id)

SpecValidate == InitValidate /\ [][NextValidate]_vars

----------------------------------------------------------------------------
\* routes.ts: the promise and certificate tables under every promise route.
\* POST /api/promises awaits db.promise.create and then
\* db.promiseCertificate.create; other requests run in between

MaxRecords == 2

\* the user who creates promises, with one title and content
RecordCreators == {"u1"}
RecordTitle == S(CHOOSE t \in Titles : TRUE)
RecordContent == S(CHOOSE c \in Contents : TRUE)

\* a creation request between its awaits: n is the row db.promise.create
\* answered
CreationRequest(pc, u, n, now) == [pc |-> pc, user |-> u, promise |-> n, now |-> now]
CreationResponse(status, n) == [status |-> status, promise |-> n]

InitRecords == Init

\* POST /api/promises up to the await of db.promise.create
CreatePromiseInsert(r, u, title, content, deliveryDate, recipient, fingerprintData, credentialId, now, key, iv) ==
    /\ inflight[r].pc = "idle"
    /\ Len(promises) < MaxRecords
    /\ IF ~Truthy(fingerprintData) \/ ~Truthy(credentialId)
          \/ title.t # "str" \/ Len(title.s) < 1
          \/ content.t # "str" \/ Len(content.s) < 1
       THEN /\ inflight' = [inflight EXCEPT ![r] = CreationRequest("done", u, 0, now)]
            /\ responses' = [responses EXCEPT ![r] = CreationResponse(400, 0)]
            /\ UNCHANGED promises
       ELSE LET n == Len(promises) + 1 IN
            /\ promises' = Append(promises,
                                  PromiseRow(n, u, title, content, deliveryDate, recipient,
                                             fingerprintData, credentialId, now, key, iv))
            /\ inflight' = [inflight EXCEPT ![r] = CreationRequest("certificate", u, n, now)]
            /\ UNCHANGED responses
    /\ UNCHANGED <<certificates, credentials, challenges, fileVars, seal, cert, snap,
                   issued, validateVars>>

\* variant: the certificate is stored a second time
CreatePromiseCertificate_Twice(r) ==
    /\ inflight[r].pc = "certificate"
    /\ LET n == inflight[r].promise
           row == CertificateRow(n, promises[n], inflight[r].now)
       IN  certificates' = certificates \o <<row, row>>
    /\ inflight' = [inflight EXCEPT ![r].pc = "respond"]
    /\ UNCHANGED <<promises, credentials, challenges, fileVars, seal, cert, snap,
                   responses, issued, validateVars>>

\* from the answer of db.promise.create to the await of
\* db.promiseCertificate.create
CreatePromiseCertificate(r) ==
    /\ inflight[r].pc = "certificate"
    /\ LET n == inflight[r].promise IN
       certificates' = Append(certificates,
                              CertificateRow(n, promises[n], inflight[r].now))
    /\ inflight' = [inflight EXCEPT ![r].pc = "respond"]
    /\ UNCHANGED <<promises, credentials, challenges, fileVars, seal, cert, snap,
                   responses, issued, validateVars>>

\* res.json({promise, certificate, message})
CreatePromiseRespond(r) ==
    /\ inflight[r].pc = "respond"
    /\ inflight' = [inflight EXCEPT ![r].pc = "done"]
    /\ responses' = [responses EXCEPT ![r] = CreationResponse(200, inflight[r].promise)]
    /\ UNCHANGED <<promises, certificates, credentials, challenges, fileVars, seal,
                   cert, snap, issued, validateVars>>

NextRecords ==
    \/ \E r \in ReqIds, u \in RecordCreators, now \in Times :
           \E cred \in {S(CredIdOf(u)), Undef} :
               CreatePromiseInsert(r, u, RecordTitle, RecordContent, Undef,
                                   CHOOSE v \in Users : v # u, S(FingerprintData),
                                   cred, now, AesKey(1), AesIv(1))
    \/ \E r \in ReqIds : CreatePromiseCertificate(r)
    \/ \E r \in ReqIds : CreatePromiseRespond(r)
    \/ \E u \in Users, n \in 1..MaxRecords :
           \E v \in Users \ {u} : SharePromise(u, n, v)
    \/ \E u \in Users, n \in 1..MaxRecords :
           n <= Len(promises) /\ SignPromise(u, n, HonestAssertion(promises[n]), Pem(KeyOf(u)))
    \/ \E u \in Users, n \in 1..MaxRecords :
           ValidatePromise(u, S(PromiseIdStr(n)), S(CredIdOf(u)))
    \/ VerifyPromiseRoute

SpecRecords == InitRecords /\ [][NextRecords]_vars

----------------------------------------------------------------------------
\* routes.ts: the sign route, with the request it was sent and its answer

InitSign == InitValidate

\* the request body and the status of the answer of a sign request
SignReply(u, promiseId, signature, publicKey, status) ==
    [route |-> "sign", user |-> u, promiseId |-> promiseId, status |-> status,
     isValid |-> FALSE, decryptedData |-> JNull, decryptFailed |-> FALSE,
     signature |-> signature, publicKey |-> publicKey]

\* db.promise.findFirst of the sign route: the rows with that id user u created
SignFindFirst(u, promiseId) ==
    {n \in 1..Len(promises) :
        promises[n].id = promiseId /\ promises[n].creatorId = S(UserIdStr(u))}

\* variant: the route answers 400 unless the signature is an assertion over
\* the challenge of the promise
SignPromiseRequest_Verified(u, promiseId, signature, publicKey) ==
    /\ IF SignFindFirst(u, promiseId) = {}
       THEN /\ reply' = SignReply(u, promiseId, signature, publicKey, 404)
            /\ UNCHANGED <<file, built, edits, result>>
       ELSE LET promise == promises[CHOOSE n \in SignFindFirst(u, promiseId) : TRUE] IN
            IF signature.t = "obj" /\ signature.clientDataJSON.challenge = SigningChallengeOf(promise)
            THEN /\ reply' = SignReply(u, promiseId, signature, publicKey, 200)
                 /\ file' = SignRouteAnswer(u, promise, signature, publicKey)
                 /\ built' = file'
                 /\ edits' = 0
                 /\ result' = NoResult
            ELSE /\ reply' = SignReply(u, promiseId, signature, publicKey, 400)
                 /\ UNCHANGED <<file, built, edits, result>>
    /\ UNCHANGED <<promises, certificates, credentials, challenges, seal, cert, snap,
                   authVars, shares>>

\* POST /api/promises/:id/sign of user u with body {signature, publicKey}; the
\* answer becomes the holder's file
SignPromiseRequest(u, promiseId, signature, publicKey) ==
    /\ IF SignFindFirst(u, promiseId) = {}
       THEN /\ reply' = SignReply(u, promiseId, signature, publicKey, 404)
            /\ UNCHANGED <<file, built, edits, result>>
       ELSE /\ reply' = SignReply(u, promiseId, signature, publicKey, 200)
            /\ file' = SignRouteAnswer(u, promises[CHOOSE n \in SignFindFirst(u, promiseId) : TRUE],
                                       signature, publicKey)
            /\ built' = file'
            /\ edits' = 0
            /\ result' = NoResult
    /\ UNCHANGED <<promises, certificates, credentials, challenges, seal, cert, snap,
                   authVars, shares>>

NextSign ==
    \/ \E u \in Users, promiseId \in {S(PromiseIdStr(1)), OtherId} :
           \E sig \in SignatureInputsFor(u, promises[1]), pk \in {Pem(KeyOf(u)), CoseB64(KeyOf(u)), NoKey} :
               SignPromiseRequest(u, promiseId, sig, pk)
    \/ VerifySignedPromiseCall

SpecSign == InitSign /\ [][NextSign]_vars

----------------------------------------------------------------------------
\* webauthn-promise.ts: a signed file whose holder changes what the signature
\* was made over and keeps the assertion

InitBound == InitVerify

\* the fields the signing challenge is derived from
BoundFields == {"id", "title", "content", "deliveryDate", "creator"}

\* the holder gives field f the value v and, when rederive is chosen, puts in
\* the challenge derived from the changed fields
ForgeFile(f, v, rederive) ==
    /\ file.shape = "object"
    /\ edits < MaxChanges
    /\ v # file[f]
    /\ LET changed == [file EXCEPT ![f] = v] IN
       file' = IF rederive
               THEN [changed EXCEPT !.challenge =
                        generateSigningChallenge(changed.id, changed.title, changed.content,
                                                 changed.deliveryDate, changed.creator.id)]
               ELSE changed
    /\ edits' = edits + 1
    /\ result' = NoResult
    /\ UNCHANGED <<promises, certificates, credentials, challenges, built, seal, benchVars>>

NextBound ==
    \/ \E f \in BoundFields, rederive \in BOOLEAN : \E v \in EditValues(f) : ForgeFile(f, v, rederive)
    \/ VerifySignedPromiseCall

SpecBound == InitBound /\ [][NextBound]_vars

----------------------------------------------------------------------------
\* routes.ts: files downloaded or signed, changed by their holder and sent to
\* /api/verify-promise

InitPlain == InitValidate

\* the values an edit gives a field of a downloaded file: those of a signed
\* file, and a verification member taken out
PlainEditValues(f) == EditValues(f) \cup (IF f = "verification" THEN {Undef} ELSE {})

NextPlain ==
    \/ \E u \in Users, id \in {S(PromiseIdStr(1)), OtherId} : DownloadPromise(u, id)
    \/ \E u \in Users, n \in 1..MaxPromises :
           n <= Len(promises) /\ SignPromise(u, n, HonestAssertion(promises[n]), Pem(KeyOf(u)))
    \/ \E f \in EditableFields : \E v \in PlainEditValues(f) : EditFile(f, v)
    \/ \E shape \in {"null", "number"} : ReplaceFile(shape)
    \/ VerifyPromiseRoute

SpecPlain == InitPlain /\ [][NextPlain]_vars


FileFields ==
    {"shape", "id", "title", "content", "deliveryDate", "createdAt", "creator",
     "encryptedContent", "signature", "publicKey", "challenge", "rpId",
     "verification"}

\* a and b agree on every field outside F
SameExcept(a, b, F) == \A f \in FileFields \ F : a[f] = b[f]

\* the last verification ran verifySignedPromise on the file
Verified == result.path \in {"try", "catch", "throw"}

\* the file is the artifact exactly as the sign route returned it
Unmodified == file.shape = "object" /\ file = built

\* C1: verifying the unmodified artifact of the sign route, for every promise
\* the creation route accepted (with or without a delivery date), reports
\* isChallengeValid = true.
C1_UnmodifiedChallengeValid ==
    (Unmodified /\ result.path = "try") => result.isChallengeValid

\* the artifact was signed the way the signing page does it: the creator's
\* registered authenticator signs the promise's challenge, and the public key
\* sent along is the one the credential store returns
HonestlySigned(sp) ==
    \E n \in 1..Len(promises) :
        /\ promises[n].id = sp.id
        /\ sp.signature = HonestAssertion(promises[n])
        /\ \E c \in credentials :
               /\ S(UserIdStr(c.userId)) = promises[n].creatorId
               /\ c.publicKey.key = sp.signature.signature.by
               /\ sp.publicKey = c.publicKey

\* C2: the unmodified artifact of a promise signed by its creator's registered
\* credential, carrying the public key from the credential store, verifies
\* with isValid = true.
C2_HonestArtifactValid ==
    (Unmodified /\ Verified /\ HonestlySigned(file)) => result.isValid

\* the file differs from the built artifact in exactly one of id, title,
\* content, deliveryDate and creator.id, and in nothing else
OneSnapshotFieldChanged ==
    /\ file.shape = "object" /\ built.shape = "object" /\ file # built
    /\ \/ \E f \in {"id", "title", "content", "deliveryDate"} :
              SameExcept(file, built, {f})
       \/ /\ SameExcept(file, built, {"creator"})
          /\ file.creator = [built.creator EXCEPT !.id = file.creator.id]

\* C3: after a change of any one of id, title, content, deliveryDate or
\* creator.id of a built artifact, the challenge left as built, verification
\* reports isChallengeValid = false and isValid = false.
C3_TamperedFieldDetected ==
    (Verified /\ OneSnapshotFieldChanged) =>
        (~result.isChallengeValid /\ ~result.isValid)

\* C4: whenever verifySignedPromise completes its checks, isValid is true
\* exactly when isChallengeValid, client-data validity, isSignatureValid and
\* isDataIntact are all true.
C4_IsValidIsConjunction ==
    result.path = "try" =>
        (result.isValid <=> (/\ result.isChallengeValid
                             /\ result.isClientDataValid
                             /\ result.isSignatureValid
                             /\ result.isDataIntact))
C4_Witness ==
    /\ result.path = "try" /\ result.isValid
    /\ result.isChallengeValid /\ result.isSignatureValid

\* C5: verifySignedPromise never throws, whatever its input (null included):
\* a failure is a result with isValid = false and a non-empty errorDetails,
\* and errorDetails is absent only when isValid = true.
C5_NeverThrows ==
    /\ result.path # "throw"
    /\ result.path \in {"try", "catch"} =>
           /\ ~result.isValid =>
                  (result.errorDetails.t = "str" /\ result.errorDetails.s # <<>>)
           /\ result.errorDetails.t = "undef" => result.isValid

BuiltResult == verifySignedPromise(built)

OnlyChallengeReplaced ==
    /\ file.shape = "object" /\ built.shape = "object"
    /\ SameExcept(file, built, {"challenge"})
    /\ file.challenge # built.challenge
    /\ BuiltResult.isChallengeValid

\* the key put in place of the built one belongs to another key pair than the
\* one that signed
OnlyPublicKeyReplaced ==
    /\ file.shape = "object" /\ built.shape = "object"
    /\ SameExcept(file, built, {"publicKey"})
    /\ file.publicKey # built.publicKey
    /\ file.publicKey.key # built.signature.signature.by

C8_OriginBoundToVerifierRp ==
    (result.path = "try" /\ file.shape = "object") =>
        LET cd == file.signature.clientDataJSON IN
        /\ result.isClientDataValid =>
               /\ cd.type = S(WebAuthnGet)
               /\ cd.challenge = file.challenge
               /\ Includes(cd.origin.s, EnvRpId)
        /\ ~Includes(cd.origin.s, EnvRpId) => ~result.isValid

RequiredFields ==
    {"id", "title", "content", "deliveryDate", "createdAt", "creator",
     "encryptedContent", "signature", "publicKey", "challenge", "rpId"}
HasAllRequiredFields(sp) ==
    sp.shape = "object" /\ \A f \in RequiredFields : sp[f].t # "undef"

\* C9: isDataIntact is true exactly when the artifact decodes and contains
\* all required fields; an artifact missing a required field is reported
\* isDataIntact = false.
C9_DataIntactMeansComplete ==
    result.path \in {"try", "catch"} =>
        /\ ~HasAllRequiredFields(file) => ~result.isDataIntact
        /\ (HasAllRequiredFields(file) /\ result.path = "try") => result.isDataIntact

\* C10: for every content / private-key / fingerprint triple, opening the
\* envelope encryptPromise made of it succeeds and returns the same content,
\* private key and fingerprint, from the envelope alone.
C10_SealRoundTrip ==
    seal.phase = "opened" =>
        /\ seal.opened.ok
        /\ Get(seal.opened.v, KEY_content) = JStr(seal.content)
        /\ Get(seal.opened.v, KEY_privateKey) = JStr(seal.privateKey)
        /\ Get(seal.opened.v, KEY_fingerprint) = JStr(seal.fingerprint)
C10_Witness ==
    /\ seal.phase = "opened" /\ seal.opened.ok
    /\ seal.content = <<34>> /\ seal.privateKey = <<55296>>
    /\ Get(seal.opened.v, KEY_content) = JStr(<<34>>)

\* C11: decryptPromise fails and returns no plaintext whenever the envelope
\* is malformed, the tag does not match ciphertext, key, IV and associated
\* data, or the decrypted text is no JSON; base64 text that differs from the
\* sealed one by a line break alone decodes to the same envelope and opens.
C11_DecryptFailures ==
    seal.phase = "opened" =>
        /\ seal.tamper \in MalformedKinds \cup TagMismatchKinds \cup {"plainNotJson"} =>
               (~seal.opened.ok /\ seal.opened.v = JUndef)
        /\ seal.tamper = "lineBreak" =>
               (/\ seal.opened.ok
                /\ Get(seal.opened.v, KEY_content) = JStr(seal.content))
C11_Witness ==
    /\ seal.phase = "opened" /\ seal.tamper = "cipherFlip" /\ ~seal.opened.ok
    /\ seal.content = <<34>>

\* C12: a certificate validates as it was issued, for every promise id, public
\* key and fingerprint; with a member of its data (promiseId, publicKey,
\* creatorFingerprint, issuedAt, issuer) given another value and the
\* signature kept, it does not
C12_CertificateRoundTrip ==
    cert.phase = "checked" =>
        /\ cert.change = "none" /\ cert.presented = cert.publicKey =>
               cert.answer = Returned(TRUE)
        /\ cert.change \in DataFieldKinds => cert.answer = Returned(FALSE)
C12_Witness ==
    /\ cert.phase = "checked" /\ cert.change = "issuedAt"
    /\ cert.answer = Returned(FALSE)
    /\ cert.promiseId = <<34>> /\ cert.creatorFingerprint = <<55296>>

\* C13: validateCertificate answers false, and throws nothing, for text that
\* is no base64 of JSON, JSON without data or without signature, and a
\* signature that is not the HMAC of the data; whatever the text, it throws
\* nothing
C13_FailClosed ==
    cert.phase = "checked" =>
        /\ ~cert.answer.threw
        /\ cert.change \in MalformedCertKinds => cert.answer.value = FALSE
C13_Witness ==
    cert.phase = "checked" /\ cert.change = "noData" /\ cert.answer = Returned(FALSE)

\* C14: two snapshots have the same signing challenge exactly when they are
\* equal field for field, and computing the challenge of a snapshot again
\* gives the challenge it gave
C14_ChallengeFieldSensitive ==
    snap.phase = "hashed" =>
        /\ (snap.ca = snap.cb) <=> (snap.a = snap.b)
        /\ ChallengeOfSnapshot(snap.a) = snap.ca
C14_Witness ==
    /\ snap.phase = "hashed" /\ snap.changes = 2
    /\ snap.a.title = S(<<34>>) /\ snap.a.content = S(<<>>)
    /\ snap.b.title = S(<<>>) /\ snap.b.content = S(<<34>>)
    /\ snap.ca # snap.cb

\* C16: verifying a signed artifact, by verifySignedPromise or by the signed
\* path of /api/verify-promise, leaves promises, certificates, credentials,
\* the challenge registry and the artifact as they were, and its result is
\* the one the artifact's own fields determine: the result of verifying it
\* again, and the result the route gives with no promise stored at all
C16_VerifyIsPureRead ==
    [][/\ VerifySignedPromiseCall =>
              /\ UNCHANGED <<promises, certificates, credentials, challenges, file>>
              /\ result' = verifySignedPromise(file')
       /\ (VerifyPromiseRoute /\ IsSignedPromise(file)) =>
              /\ UNCHANGED <<promises, certificates, credentials, challenges, file>>
              /\ result' = verifyPromiseRouteWith(<<>>, file')]_vars
C16_Witness ==
    /\ IsSignedPromise(file) /\ result.path = "try" /\ ~result.isChallengeValid
    /\ file.id = OtherId /\ promises # <<>>

\* an assertion made by an authenticator over client data that carries the
\* challenge
AssertionOver(sig, challenge) ==
    /\ sig.t = "obj"
    /\ sig.clientDataJSON.json = "obj"
    /\ sig.clientDataJSON.challenge = challenge
    /\ sig.signature.by # "none"
    /\ sig.signature.cdj = sig.clientDataJSON

\* C15: the steps of a promise happen in the order Created, Sealed,
\* Certified, ChallengeIssued, Signed, ArtifactBuilt; in particular an
\* artifact is built only once an assertion over the challenge derived for
\* its promise was obtained, so every artifact the sign route built carries one
C15_ArtifactAfterAssertion ==
    built.shape = "object" => AssertionOver(built.signature, built.challenge)

\* C17: under every interleaving of begin and verify requests a stored
\* challenge is consumed by at most one successful verification: no two
\* verify requests of a user are answered verified for the same challenge
C17_ChallengeConsumedOnce ==
    \A r1 \in ReqIds, r2 \in ReqIds :
        (/\ responses[r1].verified /\ responses[r2].verified
         /\ responses[r1].user = responses[r2].user
         /\ responses[r1].challenge = responses[r2].challenge) => r1 = r2

\* the requester of the last validate request created the promise it names
ReplyToCreator ==
    \E n \in 1..Len(promises) :
        promises[n].id = reply.promiseId /\ promises[n].creatorId = S(UserIdStr(reply.user))

\* C18: a validate answer carries decrypted content only when the check
\* passed (isValid = true) and the requester is the creator of the promise;
\* every answer with isValid = false has decryptedData null
C18_NoContentUnlessValid ==
    reply.route # "none" =>
        /\ reply.decryptedData # JNull =>
               (reply.status = 200 /\ reply.isValid /\ ReplyToCreator)
        /\ ~reply.isValid => reply.decryptedData = JNull
C18_Witness ==
    /\ reply.route = "validate" /\ reply.status = 200 /\ ~reply.isValid
    /\ ReplyToCreator /\ reply.decryptedData = JNull

\* C19: when decryptPromise fails on the stored envelope of a promise, the
\* request is aborted with an error answer, not completed with a validation
\* result
C19_DecryptFailureAborts ==
    reply.decryptFailed => reply.status # 200

\* the creatorFingerprint member of the data of a certificate text
EmbeddedFingerprint(certificate) ==
    Get(Get(JsonParse(Utf8Decode(FromBase64(certificate))).v, KEY_data),
        KEY_creatorFingerprint)

\* C20: in every reachable state the fingerprint of each stored promise is
\* hashFingerprint of the credential id stored with it, the fingerprint in
\* the data of its certificate is that same value, and hashFingerprint gives
\* equal digests for equal credential ids
C20_FingerprintOfCredential ==
    /\ \A n \in 1..Len(promises) :
           /\ promises[n].fingerprint = hashFingerprint(promises[n].credentialId)
           /\ \A m \in 1..Len(certificates) :
                  certificates[m].promiseId = promises[n].id =>
                      EmbeddedFingerprint(CertificateOf(certificates[m]))
                          = JStr(hashFingerprint(promises[n].credentialId).s)
    /\ \A u \in Users, v \in Users :
           CredIdOf(u) = CredIdOf(v) =>
               hashFingerprint(S(CredIdOf(u))) = hashFingerprint(S(CredIdOf(v)))
C20_Witness ==
    /\ Len(promises) = 1 /\ Len(certificates) = 1
    /\ promises[1].creatorId = S(UserIdStr("u1"))
    /\ promises[1].credentialId = S(CredIdOf("u2"))

\* the certificate rows that name promise id
CertificatesOf(id) == {i \in 1..Len(certificates) : certificates[i].promiseId = id}

\* C21: a promise whose creation request was answered 200 has exactly one
\* stored certificate, no promise has more than one, every certificate names
\* a stored promise, and no step changes or removes a stored certificate.
C21_OneCertificatePerPromise ==
    /\ [](/\ \A r \in ReqIds :
               responses[r].status = 200 =>
                   Cardinality(CertificatesOf(promises[responses[r].promise].id)) = 1
          /\ \A n \in 1..Len(promises) :
               Cardinality(CertificatesOf(promises[n].id)) <= 1
          /\ \A i \in 1..Len(certificates) :
               \E n \in 1..Len(promises) : promises[n].id = certificates[i].promiseId)
    /\ [][\A i \in 1..Len(certificates) :
             i <= Len(certificates') /\ certificates'[i] = certificates[i]]_vars
\* two creation requests answered 200 whose certificates were stored in the
\* other order than their promises, with a share, a signing and a validation
\* behind them
C21_Witness ==
    /\ \A r \in ReqIds : responses[r].status = 200
    /\ Len(promises) = 2 /\ Len(certificates) = 2
    /\ certificates[1].promiseId = promises[2].id
    /\ shares # {} /\ built.shape = "object" /\ reply.status = 200

\* C22: no step changes or removes a stored promise row, and the challenge of
\* the artifact the sign route built is the challenge of the row with its id
\* as it is stored now.
C22_PromiseImmutable ==
    /\ [](built.shape = "object" =>
             \E n \in 1..Len(promises) :
                 /\ promises[n].id = built.id
                 /\ built.challenge = SigningChallengeOf(promises[n]))
    /\ [][\A n \in 1..Len(promises) :
             n <= Len(promises') /\ promises'[n] = promises[n]]_vars
\* a promise that was shared, signed, verified and validated with its content
\* returned, another created after it
C22_Witness ==
    /\ Len(promises) = 2
    /\ <<promises[1].id, "u2">> \in shares
    /\ built.shape = "object" /\ built.id = promises[1].id
    /\ result.path # "none"
    /\ reply.status = 200 /\ reply.promiseId = promises[1].id
    /\ reply.decryptedData # JNull

\* the last request sent the file, an object, to /api/verify-promise
RouteAnswered == result.path # "none" /\ file.shape \in {"object", "number"}

\* the answer carries isValid, isSignatureValid, isChallengeValid and
\* isDataIntact
CarriesResult == result.path \in {"try", "catch", "plain"}

\* C23: every object sent to /api/verify-promise is answered with a
\* verification result, by the signed path when signature.clientDataJSON is
\* there and by the plain path otherwise.
C23_EveryObjectAnswered ==
    RouteAnswered =>
        /\ CarriesResult
        /\ result.path \in {"try", "catch"} <=> IsSignedPromise(file)

\* C28: on the plain path isValid is true exactly when a stored promise has
\* the file's id and its fingerprint, and a file that differs from the
\* downloaded one only in title, content or deliveryDate gets the result the
\* downloaded one gets.
C28_PlainPathIgnoresContent ==
    (RouteAnswered /\ result.path = "plain") =>
        /\ result.isValid <=>
               \E n \in 1..Len(promises) :
                   /\ promises[n].id = file.id
                   /\ promises[n].fingerprint = file.verification
        /\ (/\ ~IsSignedPromise(built)
            /\ SameExcept(file, built, {"title", "content", "deliveryDate"}))
               => result = verifyPromiseRoute(built)
\* a downloaded file with another content, reported valid
C28_Witness ==
    /\ RouteAnswered /\ result.path = "plain" /\ result.isValid
    /\ ~IsSignedPromise(built) /\ built.shape = "object"
    /\ file.content # built.content /\ file.content.t = "str"
    /\ SameExcept(file, built, {"content"})

\* request r is a verification (of a registration or of an authentication)
\* about to remove the entry of key k
RemovesEntry(r, k) ==
    /\ inflight[r].user = k[1]
    /\ inflight[r].pc = (IF k[2] = "auth" THEN "update" ELSE "cleanUp")
    /\ responses'[r].verified /\ responses'[r].status = 200

\* C24: the registry has no expiry: an entry is removed only by the
\* successful verification for its key, every other step (a failed
\* verification, any request of another key) leaves it in place, and a
\* request that presents the challenge its key holds is not rejected for its
\* challenge, however many steps went by (only for its credential).
C24_NoExpiry ==
    /\ [][\A k \in ChallengeKeys :
             (challenges[k] # 0 /\ challenges'[k] = 0) => \E r \in ReqIds : RemovesEntry(r, k)]_vars
    /\ [][\A r \in ReqIds :
             (/\ responses[r].status = 0 /\ responses'[r].status = 400
              /\ inflight[r].expected # 0
              /\ inflight[r].presented = inflight[r].expected)
                 => inflight[r].pc \in {"findCredential", "createCredential"}]_vars
\* a verification failed and left the entry, which a later one then used
C24_Witness ==
    /\ \E r \in ReqIds :
          /\ responses[r].status = 400 /\ inflight[r].expected # 0
          /\ inflight[r].presented # inflight[r].expected
          /\ challenges[<<inflight[r].user, "auth">>] = 0
          /\ \E q \in ReqIds :
                /\ responses[q].verified /\ inflight[q].user = inflight[r].user
                /\ inflight[q].expected = inflight[r].expected
                /\ inflight[q].credentialId = S(CredIdOf(inflight[q].user))
                /\ inflight[r].credentialId = inflight[q].credentialId
    /\ \E k \in ChallengeKeys : k[2] = "register" /\ challenges[k] # 0

C30_OneCredentialPerUser ==
    /\ [](\A u \in Users : Cardinality({c \in credentials : c.userId = u}) <= 1)
    /\ [][\A u \in Users :
             (challenges'[<<u, "register">>] \notin {0, challenges[<<u, "register">>]})
                 => ~ \E c \in credentials : c.userId = u]_vars

\* the file differs from the one the sign route built in a field the
\* challenge is derived from, and carries the assertion it was built with
ContentChanged ==
    /\ file.shape = "object"
    /\ file.signature = built.signature
    /\ \/ file.id # built.id \/ file.title # built.title \/ file.content # built.content
       \/ file.deliveryDate # built.deliveryDate \/ file.creator.id # built.creator.id

\* C25: when the file the sign route built verifies with isValid = true,
\* every file got from it by changing id, title, content, deliveryDate or
\* creator.id, with the challenge kept or derived anew from the changed
\* fields and the assertion kept, verifies with isValid = false.
C25_SignatureBoundToContent ==
    (Verified /\ ContentChanged /\ verifySignedPromise(built).isValid) => ~result.isValid
\* a changed content with the challenge derived anew: the challenge check
\* passes, the client data check does not
C25_Witness ==
    /\ Verified /\ ContentChanged /\ verifySignedPromise(built).isValid
    /\ file.content # built.content /\ file.challenge # built.challenge
    /\ result.path = "try" /\ result.isChallengeValid /\ result.isSignatureValid
    /\ ~result.isClientDataValid /\ ~result.isValid

\* C27: the answer of validateCertificate is the same for every public key it
\* is called with: the answer for the presented key is the answer for the key
\* the certificate was issued for, and a certificate as issued validates with
\* another key than its own.
C27_PublicKeyIgnored ==
    cert.phase = "checked" =>
        /\ cert.answer = validateCertificate(cert.certificate, cert.publicKey)
        /\ cert.change = "none" => cert.answer = Returned(TRUE)
\* a certificate as issued, presented with another key, validates
C27_Witness ==
    /\ cert.phase = "checked" /\ cert.change = "none"
    /\ cert.presented = OtherPublicKey /\ cert.presented # cert.publicKey
    /\ cert.answer = Returned(TRUE)

\* C26: the sign route builds the artifact without verifying the assertion:
\* the creator of the promise is answered with an artifact that carries the
\* signature and the public key of the request as they were sent and the
\* challenge the server derived from the stored row, whatever they are; a
\* requester who is not the creator is answered 404 and gets no artifact.
C26_SignBuildsUnverified ==
    /\ [](reply.route = "sign" =>
            IF SignFindFirst(reply.user, reply.promiseId) # {}
            THEN /\ reply.status = 200
                 /\ built.shape = "object" /\ built.id = reply.promiseId
                 /\ built.signature = reply.signature
                 /\ built.publicKey = reply.publicKey
                 /\ \E n \in SignFindFirst(reply.user, reply.promiseId) :
                        built.challenge = SigningChallengeOf(promises[n])
            ELSE reply.status = 404)
    /\ [][(reply'.route = "sign" /\ reply'.status # 200) => (built' = built /\ file' = file)]_vars
\* an artifact built for a request without a usable assertion, which then
\* does not verify
C26_Witness ==
    /\ reply.route = "sign" /\ reply.status = 200
    /\ built.shape = "object" /\ file = built
    /\ ~AssertionOver(built.signature, built.challenge)
    /\ built.signature = reply.signature /\ built.signature.t = "obj"
    /\ result.path # "none" /\ ~result.isValid

====
